---- MODULE Spec2Model ----
(***************************************************************************)
(* A model of the Rasa action server of the Home Assistant integration:    *)
(* the catalog of entities, areas and floors (hass_if.py: HassIface), the  *)
(* matcher (HassIface.match_entities) and the slot-filling forms           *)
(* (actions.py: DeviceLocationForm, DeviceAmountForm).                     *)
(*                                                                         *)
(* Python values are modelled with their types, because the code branches  *)
(* on them (isinstance, truthiness) and fails on them (TypeError,          *)
(* AttributeError):                                                        *)
(*   - a str is a sequence of one-character strings, so that lower(),      *)
(*     endswith(), rstrip(), replace(), split() and float() are computed   *)
(*     character by character;                                             *)
(*   - a slot value is a record [t, s, l, n]: t is the Python type         *)
(*     ("none", "str", "list", "num", "bool", "dict"), s the text of a     *)
(*     str, l the elements of a list of str, n a number;                   *)
(*   - a float is an IEEE 754 binary64 value [neg, e, m];                  *)
(*   - a dict is a record [order, at]: the keys in insertion order and     *)
(*     the mapping, because the code iterates dicts in insertion order.    *)
(***************************************************************************)
EXTENDS Integers, Sequences, FiniteSets, TLC

(***************************************************************************)
(* Generic helpers on sequences and sets.                                  *)
(***************************************************************************)
Range(q) == {q[i] : i \in 1..Len(q)}

RECURSIVE Flatten(_)
Flatten(qq) == IF qq = <<>> THEN <<>> ELSE Head(qq) \o Flatten(Tail(qq))

\* The orders in which a Python set of strings can be iterated.
RECURSIVE Orders(_)
Orders(S) ==
    IF S = {} THEN {<<>>}
    ELSE UNION {{<<e>> \o q : q \in Orders(S \ {e})} : e \in S}

\* One of them
RECURSIVE SomeOrder(_)
SomeOrder(S) ==
    IF S = {} THEN <<>>
    ELSE LET e == CHOOSE e \in S : TRUE IN <<e>> \o SomeOrder(S \ {e})

(***************************************************************************)
(* Python str.                                                             *)
(***************************************************************************)
UpperCase == <<"A","B","C","D","E","F","G","H","I","J","K","L","M",
               "N","O","P","Q","R","S","T","U","V","W","X","Y","Z">>
LowerCase == <<"a","b","c","d","e","f","g","h","i","j","k","l","m",
               "n","o","p","q","r","s","t","u","v","w","x","y","z">>
Digits == <<"0","1","2","3","4","5","6","7","8","9">>

\* Code-point order of the characters the model uses (ASCII).
Alphabet == <<" ", ".">> \o Digits \o UpperCase \o <<"_">> \o LowerCase

IndexOf(q, c) == CHOOSE i \in 1..Len(q) : q[i] = c

CharLower(c) == IF c \in Range(UpperCase) THEN LowerCase[IndexOf(UpperCase, c)] ELSE c

\* str.lower()
Lower(s) == [i \in 1..Len(s) |-> CharLower(s[i])]

\* str.endswith(c) for a one-character c
EndsWith(s, c) == Len(s) > 0 /\ s[Len(s)] = c

\* str.rstrip(c): every trailing c is removed
RECURSIVE RStrip(_, _)
RStrip(s, c) == IF EndsWith(s, c) THEN RStrip(SubSeq(s, 1, Len(s) - 1), c) ELSE s

\* str.replace(a, b) for one-character a and b
Replace(s, a, b) == [i \in 1..Len(s) |-> IF s[i] = a THEN b ELSE s[i]]

\* str.split(sep) with an explicit one-character separator: adjacent
\* separators yield empty words, and "" yields [""].
RECURSIVE SplitFrom(_, _, _)
SplitFrom(s, sep, word) ==
    IF s = <<>> THEN <<word>>
    ELSE IF Head(s) = sep THEN <<word>> \o SplitFrom(Tail(s), sep, <<>>)
    ELSE SplitFrom(Tail(s), sep, Append(word, Head(s)))

Split(s, sep) == SplitFrom(s, sep, <<>>)

\* sep.join(words)
RECURSIVE Join(_, _)
Join(sep, words) ==
    IF words = <<>> THEN <<>>
    ELSE IF Len(words) = 1 THEN words[1]
    ELSE words[1] \o sep \o Join(sep, Tail(words))

\* str < str (code-point order), as sorted() compares the entity names
RECURSIVE StrLess(_, _)
StrLess(a, b) ==
    IF b = <<>> THEN FALSE
    ELSE IF a = <<>> THEN TRUE
    ELSE IF Head(a) = Head(b) THEN StrLess(Tail(a), Tail(b))
    ELSE IndexOf(Alphabet, Head(a)) < IndexOf(Alphabet, Head(b))

(***************************************************************************)
(* Python float: IEEE 754 binary64, round to nearest, ties to even.  A     *)
(* float is [neg, e, m]: m is its 53-bit significand, most significant bit *)
(* first (m[1] = 1), and its value is (-1)^neg * m * 2^e; 0.0 has m = <<>>.*)
(* The values of the model are far from the subnormal and the infinite     *)
(* range; -0.0, inf and nan do not occur.  Sequences of bits stand for     *)
(* natural numbers of any size.                                            *)
(***************************************************************************)
Precision == 53

\* Natural numbers of any size are sequences of bits, most significant
\* first and without leading zero (<<>> is 0).  Their arithmetic is done on
\* limbs of LimbBits bits, least significant limb first.
LimbBits == 13
Base == 8192
Pow2 == <<1, 2, 4, 8, 16, 32, 64, 128, 256, 512, 1024, 2048, 4096>>

StripZeros(b) ==
    IF \A i \in 1..Len(b) : b[i] = 0 THEN <<>>
    ELSE SubSeq(b, CHOOSE i \in 1..Len(b) : b[i] = 1 /\ \A j \in 1..(i - 1) : b[j] = 0, Len(b))

Zeros(k) == [i \in 1..k |-> 0]

\* The bit of weight 2^i of b
BitAt(b, i) == IF i < Len(b) THEN b[Len(b) - i] ELSE 0

\* The limb of weight Base^j of b, summed from its bit i on
RECURSIVE LimbFrom(_, _, _)
LimbFrom(b, j, i) ==
    IF i >= LimbBits THEN 0
    ELSE BitAt(b, LimbBits * j + i) * Pow2[i + 1] + LimbFrom(b, j, i + 1)

BitsToLimbs(b) == [j \in 1..((Len(b) + LimbBits - 1) \div LimbBits) |-> LimbFrom(b, j - 1, 0)]

LimbsToBits(l) ==
    StripZeros([i \in 1..(LimbBits * Len(l)) |->
                  LET w == LimbBits * Len(l) - i IN
                  (l[(w \div LimbBits) + 1] \div Pow2[(w % LimbBits) + 1]) % 2])

LimbAt(l, j) == IF j <= Len(l) THEN l[j] ELSE 0

\* The bits of a natural number below Base^3
NatBits(n) == LimbsToBits(<<n % Base, (n \div Base) % Base, n \div (Base * Base)>>)

RECURSIVE LimbsAddFrom(_, _, _, _, _)
LimbsAddFrom(x, y, j, carry, acc) ==
    IF j > Len(x) /\ j > Len(y) THEN Append(acc, carry)
    ELSE LimbsAddFrom(x, y, j + 1, (LimbAt(x, j) + LimbAt(y, j) + carry) \div Base,
                      Append(acc, (LimbAt(x, j) + LimbAt(y, j) + carry) % Base))

\* a + b
BitsAdd(a, b) == LimbsToBits(LimbsAddFrom(BitsToLimbs(a), BitsToLimbs(b), 1, 0, <<>>))

RECURSIVE LimbsSubFrom(_, _, _, _, _)
LimbsSubFrom(x, y, j, borrow, acc) ==
    IF j > Len(x) THEN acc
    ELSE LimbsSubFrom(x, y, j + 1,
                      IF LimbAt(x, j) - LimbAt(y, j) - borrow < 0 THEN 1 ELSE 0,
                      Append(acc, (LimbAt(x, j) - LimbAt(y, j) - borrow + Base) % Base))

\* a - b, for a >= b
BitsSub(a, b) == LimbsToBits(LimbsSubFrom(BitsToLimbs(a), BitsToLimbs(b), 1, 0, <<>>))

\* a < b, for two sequences without leading zeros
BitsLess(a, b) ==
    \/ Len(a) < Len(b)
    \/ /\ Len(a) = Len(b)
       /\ \E i \in 1..Len(a) : a[i] < b[i] /\ \A j \in 1..(i - 1) : a[j] = b[j]

\* The column of weight Base^(k-1) of the long multiplication of x by y,
\* summed from the limb p of x on
RECURSIVE MulColumnFrom(_, _, _, _)
MulColumnFrom(x, y, k, p) ==
    IF p > Len(x) \/ p > k THEN 0
    ELSE LimbAt(x, p) * LimbAt(y, k - p + 1) + MulColumnFrom(x, y, k, p + 1)

\* The columns summed with their carries
RECURSIVE LimbsCarry(_, _, _, _)
LimbsCarry(cols, k, carry, acc) ==
    IF k > Len(cols)
    THEN acc \o <<carry % Base, carry \div Base>>
    ELSE LimbsCarry(cols, k + 1, (cols[k] + carry) \div Base,
                    Append(acc, (cols[k] + carry) % Base))

LimbsMul(x, y) ==
    LimbsCarry([k \in 1..(Len(x) + Len(y) - 1) |-> MulColumnFrom(x, y, k, 1)], 1, 0, <<>>)

\* a * b
BitsMul(a, b) ==
    IF a = <<>> \/ b = <<>> THEN <<>>
    ELSE LimbsToBits(LimbsMul(BitsToLimbs(a), BitsToLimbs(b)))

FloatZero == [neg |-> FALSE, e |-> 0, m |-> <<>>]

\* The float nearest to (-1)^neg * (bits + r) * 2^e, where 0 <= r < 1 and
\* sticky says r > 0: round to nearest, ties to even.
RoundToFloat(neg, bits, e, sticky) ==
    LET b == StripZeros(bits)
        n == Len(b)
    IN  IF b = <<>> THEN FloatZero
        ELSE IF n <= Precision
        THEN [neg |-> neg, e |-> e - (Precision - n), m |-> b \o Zeros(Precision - n)]
        ELSE
          LET kept  == SubSeq(b, 1, Precision)
              half  == b[Precision + 1] = 1
              rest  == sticky \/ \E i \in (Precision + 2)..n : b[i] = 1
              up    == half /\ (rest \/ kept[Precision] = 1)
              m1    == IF up THEN BitsAdd(kept, <<1>>) ELSE kept
          IN  IF Len(m1) > Precision
              THEN [neg |-> neg, e |-> e + (n - Precision) + 1, m |-> SubSeq(m1, 1, Precision)]
              ELSE [neg |-> neg, e |-> e + (n - Precision), m |-> m1]

\* The limbs after the point of r / d in base Base (r < d < 2^18), k of
\* them, most significant first, and what is left: [limbs, rem]
RECURSIVE FractionLimbs(_, _, _, _)
FractionLimbs(r, d, k, acc) ==
    IF k = 0 THEN [limbs |-> acc, rem |-> r]
    ELSE FractionLimbs((r * Base) % d, d, k - 1, Append(acc, (r * Base) \div d))

\* More limbs after the point than any rounding of a quotient of the
\* model needs
FractionLimbCount == 7

\* The float nearest to (-1)^neg * n / d, for naturals n and d > 0
FloatOfRatio(neg, n, d) ==
    LET f == FractionLimbs(n % d, d, FractionLimbCount, <<>>)
        fbits == [i \in 1..(LimbBits * FractionLimbCount) |->
                    (f.limbs[((i - 1) \div LimbBits) + 1]
                        \div Pow2[LimbBits - ((i - 1) % LimbBits)]) % 2]
    IN  RoundToFloat(neg /\ n # 0, NatBits(n \div d) \o fbits,
                     0 - LimbBits * FractionLimbCount, f.rem # 0)

\* float(n) of an int
FloatOfInt(n) == FloatOfRatio(n < 0, IF n < 0 THEN 0 - n ELSE n, 1)

\* The significands of x and y brought to the lesser of the two exponents
Aligned(x, y) ==
    LET e == IF x.e < y.e THEN x.e ELSE y.e IN
    [e |-> e, x |-> x.m \o Zeros(x.e - e), y |-> y.m \o Zeros(y.e - e)]

\* |x| < |y|
FloatMagLess(x, y) ==
    IF y.m = <<>> THEN FALSE
    ELSE IF x.m = <<>> THEN TRUE
    ELSE x.e < y.e \/ (x.e = y.e /\ BitsLess(x.m, y.m))

\* x + y
FloatAdd(x, y) ==
    IF x.m = <<>> THEN y
    ELSE IF y.m = <<>> THEN x
    ELSE LET al == Aligned(x, y) IN
         IF x.neg = y.neg THEN RoundToFloat(x.neg, BitsAdd(al.x, al.y), al.e, FALSE)
         ELSE IF FloatMagLess(x, y) THEN RoundToFloat(y.neg, BitsSub(al.y, al.x), al.e, FALSE)
         ELSE RoundToFloat(x.neg, BitsSub(al.x, al.y), al.e, FALSE)

\* x * y
FloatMul(x, y) ==
    IF x.m = <<>> \/ y.m = <<>> THEN FloatZero
    ELSE RoundToFloat(x.neg # y.neg, BitsMul(x.m, y.m), x.e + y.e, FALSE)

\* abs(x)
FloatAbs(x) == [x EXCEPT !.neg = FALSE]

\* x < y
FloatLess(x, y) ==
    IF x.neg /\ ~y.neg THEN x.m # <<>> \/ y.m # <<>>
    ELSE IF ~x.neg /\ y.neg THEN FALSE
    ELSE IF x.neg THEN FloatMagLess(y, x)
    ELSE FloatMagLess(x, y)

RECURSIVE DigitsValue(_)
DigitsValue(s) ==
    IF s = <<>> THEN 0
    ELSE 10 * DigitsValue(SubSeq(s, 1, Len(s) - 1)) + (IndexOf(Digits, s[Len(s)]) - 1)

AllDigits(s) == \A i \in 1..Len(s) : s[i] \in Range(Digits)

RECURSIVE PowerOfTen(_)
PowerOfTen(k) == IF k = 0 THEN 1 ELSE 10 * PowerOfTen(k - 1)

\* float(word): [ok |-> FALSE] is ValueError.  Decimal literals with an
\* optional sign and at most four fractional digits are parsed; every other
\* word of the model's inputs is not a number.
ParseFloat(word) ==
    LET neg  == Len(word) > 0 /\ word[1] = "-"
        body == IF neg THEN Tail(word) ELSE word
        dots == {i \in 1..Len(body) : body[i] = "."}
        ip   == IF dots = {} THEN body ELSE SubSeq(body, 1, (CHOOSE i \in dots : TRUE) - 1)
        fp   == IF dots = {} THEN <<>>
                ELSE SubSeq(body, (CHOOSE i \in dots : TRUE) + 1, Len(body))
        ok   == /\ Cardinality(dots) <= 1
                /\ AllDigits(ip) /\ AllDigits(fp)
                /\ Len(ip) + Len(fp) > 0
                /\ Len(fp) <= 4
    IN  IF ok THEN [ok |-> TRUE,
                    n |-> FloatOfRatio(neg, DigitsValue(ip \o fp), PowerOfTen(Len(fp)))]
        ELSE [ok |-> FALSE, n |-> FloatZero]

(***************************************************************************)
(* Slot values.                                                            *)
(***************************************************************************)
None       == [t |-> "none", s |-> <<>>, l |-> <<>>, n |-> FloatZero]
StrV(x)    == [t |-> "str",  s |-> x,    l |-> <<>>, n |-> FloatZero]
ListV(x)   == [t |-> "list", s |-> <<>>, l |-> x,    n |-> FloatZero]
NumV(x)    == [t |-> "num",  s |-> <<>>, l |-> <<>>, n |-> x]
TrueV      == [t |-> "bool", s |-> <<>>, l |-> <<>>, n |-> FloatOfInt(1)]
EmptyDictV == [t |-> "dict", s |-> <<>>, l |-> <<>>, n |-> FloatZero]

\* bool(v)
Truthy(v) ==
    CASE v.t = "none" -> FALSE
      [] v.t = "str"  -> v.s # <<>>
      [] v.t = "list" -> v.l # <<>>
      [] v.t = "num"  -> v.n # FloatZero
      [] v.t = "bool" -> v.n # FloatZero
      [] v.t = "dict" -> FALSE

(***************************************************************************)
(* Python dict: keys in insertion order, and the mapping.                  *)
(***************************************************************************)
EmptyDict == [order |-> <<>>, at |-> <<>>]

Has(d, k) == k \in Range(d.order)

\* d[k] = v
Put(d, k, v) ==
    IF Has(d, k) THEN [order |-> d.order, at |-> [x \in Range(d.order) |-> IF x = k THEN v ELSE d.at[x]]]
    ELSE [order |-> Append(d.order, k),
          at |-> [x \in Range(d.order) \cup {k} |-> IF x = k THEN v ELSE d.at[x]]]

\* d.update(e)
RECURSIVE UpdateFrom(_, _, _)
UpdateFrom(d, e, i) ==
    IF i > Len(e.order) THEN d
    ELSE UpdateFrom(Put(d, e.order[i], e.at[e.order[i]]), e, i + 1)

Update(d, e) == UpdateFrom(d, e, 1)

(***************************************************************************)
(* The string literals of the source, and the vocabulary of the            *)
(* environments (Home Assistant registries, user utterances) the model     *)
(* is run against.                                                         *)
(***************************************************************************)
Lit == [
    any |-> <<"a","n","y">>,
    all |-> <<"a","l","l">>,
    each |-> <<"e","a","c","h">>,
    percent |-> <<"p","e","r","c","e","n","t">>,
    set_relative |-> <<"s","e","t","_","r","e","l","a","t","i","v","e">>,
    set_absolute |-> <<"s","e","t","_","a","b","s","o","l","u","t","e">>,
    turn_up |-> <<"t","u","r","n","_","u","p">>,
    turn_down |-> <<"t","u","r","n","_","d","o","w","n">>,
    increase |-> <<"i","n","c","r","e","a","s","e">>,
    decrease |-> <<"d","e","c","r","e","a","s","e">>,
    set |-> <<"s","e","t">>,
    media_player |-> <<"m","e","d","i","a","_","p","l","a","y","e","r">>,
    remote |-> <<"r","e","m","o","t","e">>,
    volume |-> <<"v","o","l","u","m","e">>,
    temperature |-> <<"t","e","m","p","e","r","a","t","u","r","e">>,
    current_temperature |-> <<"c","u","r","r","e","n","t","_","t","e","m","p","e","r","a","t","u","r","e">>,
    temperature_unit |-> <<"t","e","m","p","e","r","a","t","u","r","e","_","u","n","i","t">>,
    brightness |-> <<"b","r","i","g","h","t","n","e","s","s">>,
    humidity |-> <<"h","u","m","i","d","i","t","y">>,
    unit_of_measurement |-> <<"u","n","i","t","_","o","f","_","m","e","a","s","u","r","e","m","e","n","t">>,
    current_position |-> <<"c","u","r","r","e","n","t","_","p","o","s","i","t","i","o","n">>,
    percentage |-> <<"p","e","r","c","e","n","t","a","g","e">>,
    volume_level |-> <<"v","o","l","u","m","e","_","l","e","v","e","l">>,
    media_title |-> <<"m","e","d","i","a","_","t","i","t","l","e">>,
    media_artist |-> <<"m","e","d","i","a","_","a","r","t","i","s","t">>,
    media_album_name |-> <<"m","e","d","i","a","_","a","l","b","u","m","_","n","a","m","e">>,
    on |-> <<"o","n">>,
    off |-> <<"o","f","f">>,
    turn_on |-> <<"t","u","r","n","_","o","n">>,
    turn_off |-> <<"t","u","r","n","_","o","f","f">>,
    set_temperature |-> <<"s","e","t","_","t","e","m","p","e","r","a","t","u","r","e">>,
    set_humidity |-> <<"s","e","t","_","h","u","m","i","d","i","t","y">>,
    volume_set |-> <<"v","o","l","u","m","e","_","s","e","t">>
]

Word == [
    light |-> <<"l","i","g","h","t">>,
    switch |-> <<"s","w","i","t","c","h">>,
    cover |-> <<"c","o","v","e","r">>,
    turn_on |-> <<"t","u","r","n","_","o","n">>,
    turn_off |-> <<"t","u","r","n","_","o","f","f">>,
    toggle |-> <<"t","o","g","g","l","e">>,
    open_cover |-> <<"o","p","e","n","_","c","o","v","e","r">>,
    close_cover |-> <<"c","l","o","s","e","_","c","o","v","e","r">>,
    stop_cover |-> <<"s","t","o","p","_","c","o","v","e","r">>,
    volume_set |-> <<"v","o","l","u","m","e","_","s","e","t">>,
    media_stop |-> <<"m","e","d","i","a","_","s","t","o","p">>,
    friendly_name |-> <<"f","r","i","e","n","d","l","y","_","n","a","m","e">>,
    light_lamp1 |-> <<"l","i","g","h","t",".","l","a","m","p","1">>,
    light_lamp |-> <<"l","i","g","h","t",".","l","a","m","p">>,
    light_ceiling |-> <<"l","i","g","h","t",".","c","e","i","l","i","n","g">>,
    switch_lights |-> <<"s","w","i","t","c","h",".","l","i","g","h","t","s">>,
    cover_blind |-> <<"c","o","v","e","r",".","b","l","i","n","d">>,
    media_player_tv |-> <<"m","e","d","i","a","_","p","l","a","y","e","r",".","t","v">>,
    dev1 |-> <<"d","e","v","1">>,
    living_room |-> <<"l","i","v","i","n","g","_","r","o","o","m">>,
    kitchen |-> <<"k","i","t","c","h","e","n">>,
    bedroom |-> <<"b","e","d","r","o","o","m">>,
    garage |-> <<"g","a","r","a","g","e">>,
    upstairs |-> <<"u","p","s","t","a","i","r","s">>,
    Living_Room |-> <<"L","i","v","i","n","g"," ","R","o","o","m">>,
    Kitchen |-> <<"K","i","t","c","h","e","n">>,
    Bedroom |-> <<"B","e","d","r","o","o","m">>,
    Garage |-> <<"G","a","r","a","g","e">>,
    Upstairs |-> <<"U","p","s","t","a","i","r","s">>,
    Lamp |-> <<"L","a","m","p">>,
    Ceiling |-> <<"C","e","i","l","i","n","g">>,
    Lights |-> <<"L","i","g","h","t","s">>,
    Blind |-> <<"B","l","i","n","d">>,
    TV |-> <<"T","V">>,
    living_room_sp |-> <<"l","i","v","i","n","g"," ","r","o","o","m">>,
    lamp |-> <<"l","a","m","p">>,
    lights |-> <<"l","i","g","h","t","s">>,
    blind |-> <<"b","l","i","n","d">>,
    turn_off_sp |-> <<"t","u","r","n"," ","o","f","f">>,
    stop |-> <<"s","t","o","p">>,
    a_lot |-> <<"a"," ","l","o","t">>,
    thirty_percent |-> <<"3","0"," ","p","e","r","c","e","n","t">>,
    turn_down_sp |-> <<"t","u","r","n"," ","d","o","w","n">>,
    open |-> <<"o","p","e","n">>,
    News |-> <<"N","e","w","s">>,
    attic |-> <<"a","t","t","i","c">>,
    basement |-> <<"b","a","s","e","m","e","n","t">>,
    sensor |-> <<"s","e","n","s","o","r">>,
    scene |-> <<"s","c","e","n","e">>,
    sensor_thermo |-> <<"s","e","n","s","o","r",".","t","h","e","r","m","o">>,
    scene_movie |-> <<"s","c","e","n","e",".","m","o","v","i","e">>,
    Thermo |-> <<"T","h","e","r","m","o">>,
    Movie |-> <<"M","o","v","i","e">>,
    thermo |-> <<"t","h","e","r","m","o">>,
    movie |-> <<"m","o","v","i","e">>,
    spot |-> <<"s","p","o","t">>
]

(***************************************************************************)
(* The catalog load (hass_if.py).  `hass` is the Home Assistant instance   *)
(* the load reads:                                                         *)
(*   states   the State objects of hass.states.async_all(), each           *)
(*            [entity_id, name, domain, attributes] (attributes: the keys  *)
(*            of state.attributes, in order)                               *)
(*   exposed  the entity ids async_should_expose accepts                   *)
(*   entities the entity registry: id -> [aliases, area_id, device_id]     *)
(*   devices  the device registry: id -> [area_id]                         *)
(*   areas    the area registry:   id -> [name, aliases, floor_id]         *)
(*   floors   the floor registry:  id -> [name, aliases]                   *)
(*   services hass.services: domain -> the service names                   *)
(* An optional id (area_id, device_id, floor_id) that is None is the       *)
(* empty string: the code only tests these for truth.  The unused          *)
(* "platform" entry of an entity is left out.                              *)
(***************************************************************************)
INTERESTING_ATTRIBUTES == {
    Lit.temperature, Lit.current_temperature, Lit.temperature_unit,
    Lit.brightness, Lit.humidity, Lit.unit_of_measurement,
    Lit.current_position, Lit.percentage, Lit.volume_level,
    Lit.media_title, Lit.media_artist, Lit.media_album_name }

LowerAll(names) == [j \in 1..Len(names) |-> Lower(names[j])]

\* sorted(states, key=attrgetter("name")): a stable sort
RECURSIVE InsertByName(_, _)
InsertByName(sorted, st) ==
    IF sorted = <<>> THEN <<st>>
    ELSE IF StrLess(st.name, Head(sorted).name) THEN <<st>> \o sorted
    ELSE <<Head(sorted)>> \o InsertByName(Tail(sorted), st)

RECURSIVE SortByName(_)
SortByName(states) ==
    IF states = <<>> THEN <<>>
    ELSE InsertByName(SortByName(SubSeq(states, 1, Len(states) - 1)), states[Len(states)])

RECURSIVE GetAreasFrom(_, _, _, _)
GetAreasFrom(hass, area_ids, i, acc) ==
    IF i > Len(area_ids) THEN acc
    ELSE
      LET area_id == area_ids[i] IN
      IF area_id \notin DOMAIN hass.areas
      THEN GetAreasFrom(hass, area_ids, i + 1, acc)
      ELSE
        LET area   == hass.areas[area_id]
            areas1 == Put(acc.areas, area_id,
                          [names |-> <<Lower(area.name)>> \o LowerAll(area.aliases),
                           floor_id |-> area.floor_id,
                           entity_ids |-> <<>>])
            fid    == area.floor_id
        IN
        IF fid = <<>>
        THEN GetAreasFrom(hass, area_ids, i + 1, [acc EXCEPT !.areas = areas1])
        ELSE IF ~Has(acc.floors, fid)
        THEN IF fid \notin DOMAIN hass.floors
             THEN GetAreasFrom(hass, area_ids, i + 1, [acc EXCEPT !.areas = areas1])
             ELSE GetAreasFrom(hass, area_ids, i + 1,
                    [areas |-> areas1,
                     floors |-> Put(acc.floors, fid,
                        [names |-> <<Lower(hass.floors[fid].name)>>
                                   \o LowerAll(hass.floors[fid].aliases),
                         area_ids |-> <<area_id>>,
                         entity_ids |-> <<>>])])
        ELSE GetAreasFrom(hass, area_ids, i + 1,
               [areas |-> areas1,
                floors |-> Put(acc.floors, fid,
                   [acc.floors.at[fid] EXCEPT !.area_ids = Append(@, area_id)])])

\* _get_areas(hass, area_ids) -> [areas, floors]
get_areas(hass, area_ids) ==
    GetAreasFrom(hass, area_ids, 1, [areas |-> EmptyDict, floors |-> EmptyDict])

\* entities_by_area[area_id] is created or appended to
AppendTo(d, k, v) == IF Has(d, k) THEN Put(d, k, Append(d.at[k], v)) ELSE Put(d, k, <<v>>)

\* The body of the loop over the states (hass_if.py 133-190)
ExposeEntity(hass, acc, state) ==
    IF state.entity_id \notin hass.exposed THEN acc
    ELSE IF state.entity_id \notin DOMAIN hass.entities THEN acc
    ELSE
      LET entry  == hass.entities[state.entity_id]
          names  == <<Lower(state.name)>> \o LowerAll(entry.aliases)
          inEnt  == entry.area_id # <<>>
          hasDev == entry.device_id # <<>> /\ entry.device_id \in DOMAIN hass.devices
          devArea == IF hasDev THEN hass.devices[entry.device_id].area_id ELSE <<>>
          inDev  == devArea # <<>>
          area_ids == (IF inEnt THEN <<entry.area_id>> ELSE <<>>)
                      \o (IF inDev THEN <<devArea>> ELSE <<>>)
          by1    == IF inEnt THEN AppendTo(acc.by_area, entry.area_id, state.entity_id)
                    ELSE acc.by_area
          by2    == IF inDev THEN AppendTo(by1, devArea, state.entity_id) ELSE by1
          attrs  == SelectSeq(state.attributes, LAMBDA a : a \in INTERESTING_ATTRIBUTES)
          info   == [names |-> names,
                     domain |-> state.domain,
                     area_ids |-> area_ids,
                     action |-> IF state.domain \in DOMAIN hass.services
                                THEN hass.services[state.domain] ELSE <<>>,
                     attributes |-> IF state.domain \in {Lit.media_player, Lit.remote}
                                    THEN Append(attrs, Lit.volume) ELSE attrs]
      IN [entities |-> Put(acc.entities, state.entity_id, info), by_area |-> by2]

RECURSIVE ExposeFrom(_, _, _, _)
ExposeFrom(hass, states, i, acc) ==
    IF i > Len(states) THEN acc
    ELSE ExposeFrom(hass, states, i + 1, ExposeEntity(hass, acc, states[i]))

\* areas[area_id]["entity_ids"] = ent, for every area of entities_by_area
RECURSIVE SetEntityIds(_, _, _)
SetEntityIds(areas, by_area, i) ==
    IF i > Len(by_area.order) THEN areas
    ELSE LET a == by_area.order[i] IN
         SetEntityIds(Put(areas, a, [areas.at[a] EXCEPT !.entity_ids = by_area.at[a]]),
                      by_area, i + 1)

\* floor["entity_ids"]: the entities of the floor's areas, accumulated
FloorEntityIds(areas, floor) ==
    Flatten([j \in 1..Len(floor.area_ids) |-> areas.at[floor.area_ids[j]].entity_ids])

\* The floors, each with the entities of its areas
WithFloorEntityIds(floors, areas) ==
    [order |-> floors.order,
     at |-> [f \in Range(floors.order) |->
               [floors.at[f] EXCEPT !.entity_ids = FloorEntityIds(areas, floors.at[f])]]]

\* The end of _get_exposed_entities, from `areas, floors = await _get_areas`
\* on: acc holds the entities and entities_by_area, af the areas and floors
ExposedWith(acc, af, areas) ==
    IF \A a \in Range(acc.by_area.order) : Has(af.areas, a)
    THEN [ok |-> TRUE, entities |-> acc.entities, areas |-> areas,
          floors |-> WithFloorEntityIds(af.floors, areas)]
    ELSE [ok |-> FALSE, entities |-> EmptyDict, areas |-> EmptyDict, floors |-> EmptyDict]

ExposedIn(acc, af) == ExposedWith(acc, af, SetEntityIds(af.areas, acc.by_area, 1))

ExposedOf(hass, acc) == ExposedIn(acc, get_areas(hass, acc.by_area.order))

\* _get_exposed_entities(hass) -> (entities, areas, floors); ok = FALSE when
\* it raises KeyError (an area the area registry does not know).
get_exposed_entities(hass) ==
    ExposedOf(hass, ExposeFrom(hass, SortByName(hass.states), 1,
                               [entities |-> EmptyDict, by_area |-> EmptyDict]))

\* val = dict(v); val.pop("names"); val["id"] = k
WithId(v, k) ==
    [f \in (DOMAIN v \ {"names"}) \cup {"id"} |-> IF f = "id" THEN k ELSE v[f]]

RECURSIVE ReverseNames(_, _, _, _)
ReverseNames(result, names, val, j) ==
    IF j > Len(names) THEN result
    ELSE ReverseNames(Put(result, names[j], val), names, val, j + 1)

RECURSIVE ReverseFrom(_, _, _)
ReverseFrom(map, i, result) ==
    IF i > Len(map.order) THEN result
    ELSE LET k == map.order[i] IN
         ReverseFrom(map, i + 1,
                     ReverseNames(result, map.at[k].names, WithId(map.at[k], k), 1))

\* _reverse_map(map): name -> the record (without its names, with its id)
\* registered last under that name
reverse_map(map) == ReverseFrom(map, 1, EmptyDict)

(***************************************************************************)
(* HassIface (hass_if.py).  `self` is the record of its six indexes.       *)
(***************************************************************************)
\* HassIface.__init__: every index is empty
EmptyIface ==
    [entity_by_id |-> EmptyDict, area_by_id |-> EmptyDict, floor_by_id |-> EmptyDict,
     entity_by_name |-> EmptyDict, area_by_name |-> EmptyDict, floor_by_name |-> EmptyDict]

\* The assignments of HassIface.load, given what _get_exposed_entities
\* returned: when it raises, nothing is assigned
Assigned(self, got) ==
    IF ~got.ok THEN self
    ELSE [entity_by_id |-> got.entities,
          area_by_id |-> got.areas,
          floor_by_id |-> got.floors,
          entity_by_name |-> reverse_map(got.entities),
          area_by_name |-> reverse_map(got.areas),
          floor_by_name |-> reverse_map(got.floors)]

\* The first three assignments only: the indexes by name are those of the
\* load before
AssignedIds(self, got) ==
    IF ~got.ok THEN self
    ELSE [self EXCEPT !.entity_by_id = got.entities, !.area_by_id = got.areas,
                      !.floor_by_id = got.floors]

\* load that stops after the three indexes by id
load_ids_only(self, hass) == AssignedIds(self, get_exposed_entities(hass))

\* HassIface.load
load(self, hass) == Assigned(self, get_exposed_entities(hass))

\* HassIface.find_location_by_name
find_location_by_name(self, loc) ==
    (IF Has(self.area_by_name, loc) THEN <<self.area_by_name.at[loc].id>> ELSE <<>>)
    \o (IF Has(self.floor_by_name, loc) THEN <<self.floor_by_name.at[loc].id>> ELSE <<>>)

\* HassIface._get_entities_by_area
get_entities_by_area(self, area_id) ==
    (IF Has(self.area_by_id, area_id) THEN self.area_by_id.at[area_id].entity_ids ELSE <<>>)
    \o (IF Has(self.floor_by_id, area_id) THEN self.floor_by_id.at[area_id].entity_ids ELSE <<>>)

\* The action alone, without the two forms that carry the domain
action_candidates_exact(action, domain) == {action}

\* action_candidates = [action, f"{action}_{domain}", f"{domain}_{action}"]
action_candidates(action, domain) ==
    {action, action \o <<"_">> \o domain, domain \o <<"_">> \o action}

\* HassIface._match_actions
match_actions(entity, actions) ==
    UNION {{c \in action_candidates(actions[i], entity.domain) : c \in Range(entity.action)}
           : i \in 1..Len(actions)}

\* a in b, for two str
IsSubstring(a, b) == \E i \in 1..(Len(b) + 1) : i + Len(a) - 1 <= Len(b) /\ SubSeq(b, i, i + Len(a) - 1) = a

\* name in entity_names, where entity_names is the device slot (a list of
\* names, or a str)
NameIn(name, entity_names) ==
    CASE entity_names.t = "list" -> name \in Range(entity_names.l)
      [] entity_names.t = "str"  -> IsSubstring(name, entity_names.s)
      [] OTHER -> FALSE

\* HassIface._entity_is_candidate
\* _entity_is_candidate that lets a device without attributes pass a
\* parameter filter
entity_is_candidate_lenient(self, entity_id, entity_names, attributes, actions) ==
    LET entity == self.entity_by_id.at[entity_id] IN
    IF /\ Truthy(entity_names)
       /\ \A i \in 1..Len(entity.names) : ~NameIn(entity.names[i], entity_names)
       /\ ~NameIn(entity.domain, entity_names)
    THEN FALSE
    ELSE IF attributes # <<>> /\ entity.attributes # <<>>
            /\ \A i \in 1..Len(entity.attributes) : entity.attributes[i] \notin Range(attributes)
    THEN FALSE
    ELSE IF actions # <<>> /\ entity.action = <<>>
    THEN FALSE
    ELSE TRUE

entity_is_candidate(self, entity_id, entity_names, attributes, actions) ==
    LET entity == self.entity_by_id.at[entity_id] IN
    IF /\ Truthy(entity_names)
       /\ \A i \in 1..Len(entity.names) : ~NameIn(entity.names[i], entity_names)
       /\ ~NameIn(entity.domain, entity_names)
    THEN FALSE
    ELSE IF attributes # <<>> /\ entity.attributes # <<>>
            /\ \A i \in 1..Len(entity.attributes) : entity.attributes[i] \notin Range(attributes)
    THEN FALSE
    ELSE IF attributes # <<>> /\ entity.attributes = <<>>
    THEN FALSE
    ELSE IF actions # <<>> /\ entity.action = <<>>
    THEN FALSE
    ELSE TRUE

\* The parameter and action slots as the lists match_entities makes of them
AsList(v) ==
    CASE v.t = "str"  -> <<v.s>>
      [] v.t = "list" -> v.l
      [] OTHER -> <<>>

\* The area ids, were the floors iterated when no location is given
match_area_ids_by_floor(self, slots) ==
    IF ~Truthy(slots["location"]) THEN Range(self.floor_by_id.order)
    ELSE IF slots["location"].t = "str" THEN {slots["location"].s}
    ELSE Range(slots["location"].l)

\* The area ids match_entities iterates over (hass_if.py 405-414)
match_area_ids(self, slots) ==
    IF ~Truthy(slots["location"]) THEN Range(self.area_by_id.order)
    ELSE IF slots["location"].t = "str" THEN {slots["location"].s}
    ELSE Range(slots["location"].l)

EmptyMatch == [actions |-> {}, locations |-> {}, entities |-> {}, attributes |-> {}]

\* The body of the inner loop of match_entities (hass_if.py 450-486)
MatchEntity(self, slots, params, actions, is_adjust, area_id, entity_id, acc) ==
    IF ~entity_is_candidate(self, entity_id, slots["device"], params, actions) THEN acc
    ELSE
      LET entity == self.entity_by_id.at[entity_id]
          ent_actions == match_actions(entity, actions)
      IN
      IF actions # <<>> /\ ent_actions = {} /\ ~is_adjust THEN acc
      ELSE [actions |-> acc.actions \cup
                        (IF actions # <<>> THEN ent_actions ELSE Range(entity.action)),
            attributes |-> acc.attributes \cup
                        (IF params # <<>>
                         THEN {a \in Range(entity.attributes) : a \in Range(params)}
                         ELSE Range(entity.attributes)),
            locations |-> acc.locations \cup {area_id},
            entities |-> acc.entities \cup {entity_id}]

RECURSIVE MatchArea(_, _, _, _, _, _, _, _, _)
MatchArea(self, slots, params, actions, is_adjust, area_id, entity_ids, i, acc) ==
    IF i > Len(entity_ids) THEN acc
    ELSE MatchArea(self, slots, params, actions, is_adjust, area_id, entity_ids, i + 1,
                   MatchEntity(self, slots, params, actions, is_adjust, area_id,
                               entity_ids[i], acc))

\* match_entities that leaves set_relative and set_absolute among the actions
match_entities_keep_adjust(self, slots) ==
    LET params    == AsList(slots["parameter"])
        actions   == AsList(slots["action"])
        is_adjust == Lit.set_relative \in Range(actions) \/ Lit.set_absolute \in Range(actions)
        per(a)    == MatchArea(self, slots, params, actions, is_adjust, a,
                               get_entities_by_area(self, a), 1, EmptyMatch)
        area_ids  == match_area_ids(self, slots)
    IN  [actions    |-> UNION {per(a).actions : a \in area_ids},
         locations  |-> UNION {per(a).locations : a \in area_ids},
         entities   |-> UNION {per(a).entities : a \in area_ids},
         attributes |-> UNION {per(a).attributes : a \in area_ids}]

\* HassIface.match_entities -> (actions, locations, entities, attributes).
\* The four results are sets that only grow, so the order in which the set
\* area_ids is iterated does not show in them: the areas are folded one by
\* one and their results united.
match_entities(self, slots) ==
    LET params    == AsList(slots["parameter"])
        given     == AsList(slots["action"])
        actions   == SelectSeq(given, LAMBDA a : a \notin {Lit.set_relative, Lit.set_absolute})
        is_adjust == Lit.set_relative \in Range(given) \/ Lit.set_absolute \in Range(given)
        per(a)    == MatchArea(self, slots, params, actions, is_adjust, a,
                               get_entities_by_area(self, a), 1, EmptyMatch)
        area_ids  == match_area_ids(self, slots)
    IN  [actions    |-> UNION {per(a).actions : a \in area_ids},
         locations  |-> UNION {per(a).locations : a \in area_ids},
         entities   |-> UNION {per(a).entities : a \in area_ids},
         attributes |-> UNION {per(a).attributes : a \in area_ids}]

(***************************************************************************)
(* The environments the model is run against: three Home Assistant         *)
(* instances.                                                              *)
(*   1: one lamp in an area whose id ("living_room") is not its name.      *)
(*   2: two lights in two areas (one reached through its device, on a      *)
(*      floor) and a switch named "lights".                                *)
(*   3: a cover and a media player; an area and a floor share the name     *)
(*      and the id "garage".                                               *)
(***************************************************************************)
LightServices == <<Word.turn_on, Word.turn_off, Word.toggle>>

Hass1 ==
    [states   |-> << [entity_id |-> Word.light_lamp1, name |-> Word.Lamp, domain |-> Word.light,
                      attributes |-> <<Word.friendly_name, Lit.brightness>>,
                      state |-> Lit.on,
                      values |-> (Word.friendly_name :> StrV(Word.Lamp))
                                 @@ (Lit.brightness :> NumV(FloatOfInt(128)))] >>,
     exposed  |-> {Word.light_lamp1},
     entities |-> (Word.light_lamp1 :> [aliases |-> <<>>, area_id |-> Word.living_room,
                                         device_id |-> <<>>]),
     devices  |-> <<>>,
     areas    |-> (Word.living_room :> [name |-> Word.Living_Room, aliases |-> <<>>,
                                         floor_id |-> <<>>]),
     floors   |-> <<>>,
     services |-> (Word.light :> LightServices)]

Hass2 ==
    [states   |-> << [entity_id |-> Word.switch_lights, name |-> Word.Lights,
                      domain |-> Word.switch, attributes |-> <<Word.friendly_name>>,
                      state |-> Lit.off,
                      values |-> (Word.friendly_name :> StrV(Word.Lights))],
                     [entity_id |-> Word.light_lamp, name |-> Word.Lamp, domain |-> Word.light,
                      attributes |-> <<Lit.brightness, Word.friendly_name>>,
                      state |-> Lit.on,
                      values |-> (Lit.brightness :> NumV(FloatOfInt(200)))
                                 @@ (Word.friendly_name :> StrV(Word.Lamp))],
                     [entity_id |-> Word.light_ceiling, name |-> Word.Ceiling,
                      domain |-> Word.light, attributes |-> <<Lit.brightness>>,
                      state |-> Lit.off,
                      values |-> (Lit.brightness :> None)] >>,
     exposed  |-> {Word.switch_lights, Word.light_lamp, Word.light_ceiling},
     entities |-> (Word.switch_lights :> [aliases |-> <<>>, area_id |-> Word.kitchen,
                                           device_id |-> <<>>])
                  @@ (Word.light_lamp :> [aliases |-> <<>>, area_id |-> Word.kitchen,
                                          device_id |-> <<>>])
                  @@ (Word.light_ceiling :> [aliases |-> <<>>, area_id |-> <<>>,
                                             device_id |-> Word.dev1]),
     devices  |-> (Word.dev1 :> [area_id |-> Word.bedroom]),
     areas    |-> (Word.kitchen :> [name |-> Word.Kitchen, aliases |-> <<>>, floor_id |-> <<>>])
                  @@ (Word.bedroom :> [name |-> Word.Bedroom, aliases |-> <<>>,
                                       floor_id |-> Word.upstairs]),
     floors   |-> (Word.upstairs :> [name |-> Word.Upstairs, aliases |-> <<>>]),
     services |-> (Word.light :> LightServices)
                  @@ (Word.switch :> <<Word.turn_on, Word.turn_off>>)]

Hass3 ==
    [states   |-> << [entity_id |-> Word.media_player_tv, name |-> Word.TV,
                      domain |-> Lit.media_player,
                      attributes |-> <<Lit.volume_level, Lit.media_title>>,
                      state |-> Lit.on,
                      values |-> (Lit.volume_level :> NumV(FloatOfRatio(FALSE, 6, 10)))
                                 @@ (Lit.media_title :> StrV(Word.News))],
                     [entity_id |-> Word.cover_blind, name |-> Word.Blind, domain |-> Word.cover,
                      attributes |-> <<Lit.current_position>>,
                      state |-> Word.open,
                      values |-> (Lit.current_position :> NumV(FloatOfInt(100)))] >>,
     exposed  |-> {Word.media_player_tv, Word.cover_blind},
     entities |-> (Word.media_player_tv :> [aliases |-> <<>>, area_id |-> Word.living_room,
                                             device_id |-> <<>>])
                  @@ (Word.cover_blind :> [aliases |-> <<>>, area_id |-> Word.garage,
                                           device_id |-> <<>>]),
     devices  |-> <<>>,
     areas    |-> (Word.living_room :> [name |-> Word.Living_Room, aliases |-> <<>>,
                                         floor_id |-> Word.garage])
                  @@ (Word.garage :> [name |-> Word.Garage, aliases |-> <<>>,
                                      floor_id |-> Word.garage]),
     floors   |-> (Word.garage :> [name |-> Word.Garage, aliases |-> <<>>]),
     services |-> (Word.cover :> <<Word.open_cover, Word.close_cover, Word.stop_cover>>)
                  @@ (Lit.media_player :> <<Word.turn_on, Word.turn_off, Word.volume_set,
                                            Word.media_stop>>)]

Homes == <<Hass1, Hass2, Hass3>>

\* A home with a device that supports no action (no service is registered
\* for the domain sensor) and a device that exposes no attribute
Hass4 ==
    [states   |-> << [entity_id |-> Word.light_lamp, name |-> Word.Lamp, domain |-> Word.light,
                      attributes |-> <<Lit.brightness, Word.friendly_name>>,
                      state |-> Lit.on,
                      values |-> (Lit.brightness :> NumV(FloatOfInt(200)))
                                 @@ (Word.friendly_name :> StrV(Word.Lamp))],
                     [entity_id |-> Word.sensor_thermo, name |-> Word.Thermo,
                      domain |-> Word.sensor,
                      attributes |-> <<Lit.temperature, Lit.humidity>>,
                      state |-> Lit.on,
                      values |-> (Lit.temperature :> NumV(FloatOfInt(20)))
                                 @@ (Lit.humidity :> NumV(FloatOfInt(40)))],
                     [entity_id |-> Word.scene_movie, name |-> Word.Movie,
                      domain |-> Word.scene, attributes |-> <<Word.friendly_name>>,
                      state |-> Lit.off,
                      values |-> (Word.friendly_name :> StrV(Word.Movie))] >>,
     exposed  |-> {Word.light_lamp, Word.sensor_thermo, Word.scene_movie},
     entities |-> (Word.light_lamp :> [aliases |-> <<>>, area_id |-> Word.kitchen,
                                       device_id |-> <<>>])
                  @@ (Word.sensor_thermo :> [aliases |-> <<>>, area_id |-> Word.kitchen,
                                             device_id |-> <<>>])
                  @@ (Word.scene_movie :> [aliases |-> <<>>, area_id |-> Word.bedroom,
                                           device_id |-> <<>>]),
     devices  |-> <<>>,
     areas    |-> (Word.kitchen :> [name |-> Word.Kitchen, aliases |-> <<>>, floor_id |-> <<>>])
                  @@ (Word.bedroom :> [name |-> Word.Bedroom, aliases |-> <<>>,
                                       floor_id |-> <<>>]),
     floors   |-> <<>>,
     services |-> (Word.light :> LightServices)
                  @@ (Word.scene :> <<Word.turn_on>>)]

\* The Home Assistant instance of index h: Hass4 comes after Homes
HomeAt(h) == IF h \in DOMAIN Homes THEN Homes[h] ELSE Hass4

(***************************************************************************)
(* The forms (actions.py).                                                 *)
(*                                                                         *)
(* tracker.slots is a function from SlotNames to slot values.  An event    *)
(* is a record [ev, key, val, text].  The text of a message is a str in    *)
(* which the literal text of the source is kept in one piece and the       *)
(* interpolated values are spelled character by character.                 *)
(***************************************************************************)
SlotNames == {"location", "device", "parameter", "action", "amount", "multiple",
              "requested_slot"}

AllNone == [k \in SlotNames |-> None]

BotUttered(text) == [ev |-> "BotUttered", key |-> "", val |-> None, text |-> text]
SlotSet(k, v)    == [ev |-> "SlotSet", key |-> k, val |-> v, text |-> <<>>]
AllSlotsReset    == [ev |-> "AllSlotsReset", key |-> "", val |-> None, text |-> <<>>]
ActiveLoopNone   == [ev |-> "ActiveLoop", key |-> "", val |-> None, text |-> <<>>]

\* [SlotSet(key=k, value=v) for k, v in slots_to_set.items()]
SlotSets(d) == [i \in 1..Len(d.order) |-> SlotSet(d.order[i], d.at[d.order[i]])]

\* current_slots.update(slots_to_set)
Apply(slots, d) == [k \in SlotNames |-> IF Has(d, k) THEN d.at[k] ELSE slots[k]]

\* str(n) for a natural number
RECURSIVE IntToStr(_)
IntToStr(n) == IF n < 10 THEN <<Digits[n + 1]>> ELSE IntToStr(n \div 10) \o <<Digits[(n % 10) + 1]>>

\* The outcome of a step that can raise: `raised` names the exception ("" if
\* none), `upd` is the dict returned, `text` the str returned or the text
\* of the exception.
Ok(upd)       == [raised |-> "", upd |-> upd, text |-> <<>>]
OkText(text)  == [raised |-> "", upd |-> EmptyDict, text |-> text]
Raise(e, txt) == [raised |-> e, upd |-> EmptyDict, text |-> txt]

\* _english_list(objs, join); objs is given by its type (kind: "list", "set"
\* or "str") and its elements in iteration order.  A set cannot be sliced.
english_list(kind, objs, join) ==
    LET count == Len(objs) IN
    IF count = 0 THEN OkText(<<>>)
    ELSE IF count = 1 THEN OkText(objs[1])
    ELSE IF count = 2 THEN OkText(Join(<<" ">> \o join \o <<" ">>, objs))
    ELSE IF kind = "set" THEN Raise("TypeError", <<>>)
    ELSE OkText(Join(<<",", " ">>, SubSeq(objs, 1, count - 1))
                \o <<",", " ">> \o join \o <<" ">> \o objs[count])

And == <<"a", "n", "d">>
Or  == <<"o", "r">>

\* _english_list of a slot value that is a list of str or a str
english_list_of(v, join) ==
    IF v.t = "list" THEN english_list("list", v.l, join)
    ELSE english_list("str", [i \in 1..Len(v.s) |-> <<v.s[i]>>], join)

\* validate_location without `raise UnknownName`: a name nothing is known by
\* gives an empty list of ids
validate_location_lenient(self, candidate) ==
    IF candidate.t = "str" /\ candidate.s \in {Lit.any, Lit.all, Lit.each}
    THEN Ok(Put(Put(EmptyDict, "multiple", TrueV), "location", StrV(<<>>)))
    ELSE IF candidate.t \in {"list", "dict"} THEN Raise("TypeError", <<>>)
    ELSE Ok(Put(EmptyDict, "location",
                ListV(IF candidate.t = "str" THEN find_location_by_name(self, candidate.s)
                      ELSE <<>>)))

\* DeviceLocationForm.validate_location.  A list is unhashable: looking it
\* up in the name indexes raises TypeError.
\* validate_location that clears the location for a sentinel and leaves
\* `multiple` as it is
validate_location_no_multiple(self, candidate) ==
    IF candidate.t = "str" /\ candidate.s \in {Lit.any, Lit.all, Lit.each}
    THEN Ok(Put(EmptyDict, "location", StrV(<<>>)))
    ELSE IF candidate.t \in {"list", "dict"} THEN Raise("TypeError", <<>>)
    ELSE
      LET loc_ids == IF candidate.t = "str" THEN find_location_by_name(self, candidate.s)
                     ELSE <<>>
      IN IF loc_ids # <<>> THEN Ok(Put(EmptyDict, "location", ListV(loc_ids)))
         ELSE Raise("UnknownName", <<"Sorry, I don't know the location ">> \o candidate.s)

validate_location(self, candidate) ==
    IF candidate.t = "str" /\ candidate.s \in {Lit.any, Lit.all, Lit.each}
    THEN Ok(Put(Put(EmptyDict, "multiple", TrueV), "location", StrV(<<>>)))
    ELSE IF candidate.t \in {"list", "dict"} THEN Raise("TypeError", <<>>)
    ELSE
      LET loc_ids == IF candidate.t = "str" THEN find_location_by_name(self, candidate.s)
                     ELSE <<>>
      IN IF loc_ids # <<>> THEN Ok(Put(EmptyDict, "location", ListV(loc_ids)))
         ELSE Raise("UnknownName", <<"Sorry, I don't know the location ">> \o candidate.s)

\* DeviceLocationForm.get_slots_from_tracker
get_slots_from_tracker(tracker) ==
    [k \in SlotNames |-> IF tracker[k].t = "str" THEN StrV(Lower(tracker[k].s)) ELSE tracker[k]]

\* DeviceLocationForm._extract_location
extract_location(self, candidate_loc) ==
    IF Truthy(candidate_loc) THEN validate_location(self, candidate_loc) ELSE Ok(EmptyDict)

\* _extract_device without the singular appended to the list
extract_device_plural_only(candidate_dev) ==
    IF ~Truthy(candidate_dev) THEN Ok(EmptyDict)
    ELSE IF candidate_dev.t # "str" THEN Raise("AttributeError", <<>>)
    ELSE IF EndsWith(candidate_dev.s, "s")
    THEN Ok(Put(Put(EmptyDict, "device", ListV(<<candidate_dev.s>>)), "multiple", TrueV))
    ELSE Ok(Put(EmptyDict, "device", ListV(<<candidate_dev.s>>)))

\* DeviceLocationForm._extract_device.  Only a str has endswith.
extract_device(candidate_dev) ==
    IF ~Truthy(candidate_dev) THEN Ok(EmptyDict)
    ELSE IF candidate_dev.t # "str" THEN Raise("AttributeError", <<>>)
    ELSE IF EndsWith(candidate_dev.s, "s")
    THEN Ok(Put(Put(EmptyDict, "device",
                    ListV(<<candidate_dev.s, RStrip(candidate_dev.s, "s")>>)),
                "multiple", TrueV))
    ELSE Ok(Put(EmptyDict, "device", ListV(<<candidate_dev.s>>)))

\* DeviceAmountForm.ACTION_DICT: the action each verb stands for
ACTION_DICT ==
    (Lit.turn_up :> Lit.set_relative) @@ (Lit.turn_down :> Lit.set_relative)
    @@ (Lit.increase :> Lit.set_relative) @@ (Lit.decrease :> Lit.set_relative)
    @@ (Lit.set :> Lit.set_absolute)

\* DeviceAmountForm._extract_action.  The amount of ACTION_DICT is never
\* None, so no amount is set.  Only a str has replace.
extract_action(candidate_act) ==
    IF ~Truthy(candidate_act) THEN Ok(EmptyDict)
    ELSE IF candidate_act.t # "str" THEN Raise("AttributeError", <<>>)
    ELSE LET action == Replace(candidate_act.s, " ", "_") IN
         Ok(Put(EmptyDict, "action",
                StrV(IF action \in DOMAIN ACTION_DICT THEN ACTION_DICT[action] ELSE action)))

\* The loop over the words of DeviceAmountForm._extract_amount:
\* acc = [mult, amount, parsed]
RECURSIVE AmountWords(_, _, _)
AmountWords(words, i, acc) ==
    IF i > Len(words) THEN acc
    ELSE IF words[i] = Lit.percent
    THEN AmountWords(words, i + 1, [acc EXCEPT !.percent = TRUE])
    ELSE LET f == ParseFloat(words[i]) IN
         IF f.ok THEN AmountWords(words, i + 1, [acc EXCEPT !.amount = NumV(f.n), !.parsed = TRUE])
         ELSE AmountWords(words, i + 1, acc)

\* The literal 0.01
Hundredth == FloatOfRatio(FALSE, 1, 100)

\* _extract_amount that implies set_absolute whatever the action is
extract_amount_any_action(candidate_amount, action) ==
    LET acc == IF candidate_amount.t = "str"
               THEN AmountWords(Split(candidate_amount.s, " "), 1,
                                [percent |-> FALSE, amount |-> candidate_amount,
                                 parsed |-> FALSE])
               ELSE [percent |-> FALSE, amount |-> candidate_amount, parsed |-> FALSE]
        amount == IF acc.amount.t = "num" /\ acc.percent
                  THEN NumV(FloatMul(acc.amount.n, Hundredth)) ELSE acc.amount
        ret == Put(EmptyDict, "amount", amount)
    IN  IF acc.parsed
        THEN Ok(Put(ret, "action", StrV(Lit.set_absolute)))
        ELSE Ok(ret)

\* DeviceAmountForm._extract_amount; the product by mult = 1.0 is exact
extract_amount(candidate_amount, action) ==
    LET acc == IF candidate_amount.t = "str"
               THEN AmountWords(Split(candidate_amount.s, " "), 1,
                                [percent |-> FALSE, amount |-> candidate_amount,
                                 parsed |-> FALSE])
               ELSE [percent |-> FALSE, amount |-> candidate_amount, parsed |-> FALSE]
        amount == IF acc.amount.t = "num" /\ acc.percent
                  THEN NumV(FloatMul(acc.amount.n, Hundredth)) ELSE acc.amount
        ret == Put(EmptyDict, "amount", amount)
    IN  IF acc.parsed /\ action.t = "none"
        THEN Ok(Put(ret, "action", StrV(Lit.set_absolute)))
        ELSE Ok(ret)

\* DeviceLocationForm._next_slot
next_slot_location(current_slots) ==
    LET device == current_slots["device"]
        device_count == IF device.t = "list" THEN Len(device.l)
                        ELSE IF device.t = "str" THEN 1 ELSE 0
    IN  IF ~Truthy(current_slots["action"]) THEN StrV(<<"action">>)
        ELSE IF device_count = 0 THEN StrV(<<"device">>)
        ELSE IF device_count > 1 /\ ~Truthy(current_slots["multiple"])
        THEN StrV(<<"location">>)
        ELSE None

\* _next_slot that asks for the amount of every action, adjustment or not
next_slot_amount_of_any_action(current_slots) ==
    LET next_slot == next_slot_location(current_slots) IN
    IF next_slot # None THEN next_slot
    ELSE IF current_slots["amount"].t = "none" THEN StrV(<<"amount">>)
    ELSE IF ~Truthy(current_slots["parameter"]) THEN StrV(<<"parameter">>)
    ELSE None

\* _next_slot that tests the amount for truthiness: 0 is asked for again
next_slot_amount_truthy(current_slots) ==
    LET next_slot == next_slot_location(current_slots) IN
    IF next_slot # None THEN next_slot
    ELSE IF current_slots["action"] \in {StrV(Lit.set_absolute), StrV(Lit.set_relative)}
    THEN IF ~Truthy(current_slots["amount"]) THEN StrV(<<"amount">>)
         ELSE IF ~Truthy(current_slots["parameter"]) THEN StrV(<<"parameter">>)
         ELSE None
    ELSE None

\* DeviceAmountForm._next_slot
next_slot_amount(current_slots) ==
    LET next_slot == next_slot_location(current_slots) IN
    IF next_slot # None THEN next_slot
    ELSE IF current_slots["action"] \in {StrV(Lit.set_absolute), StrV(Lit.set_relative)}
    THEN IF current_slots["amount"].t = "none" THEN StrV(<<"amount">>)
         ELSE IF ~Truthy(current_slots["parameter"]) THEN StrV(<<"parameter">>)
         ELSE None
    ELSE None

\* The orders in which a set handed to _english_list can be iterated.  Only
\* a set of two shows its order in the text (one element is joined alone,
\* three or more cannot be sliced).
SetOrders(S) == IF Cardinality(S) = 2 THEN Orders(S) ELSE {SomeOrder(S)}

\* " ".join(parts)
JoinSp(parts) == Join(<<" ">>, parts)

\* DeviceLocationForm._find_alt: [raised, found, text, slots, m].  `exclude`
\* is a set of slot names; oL, oA and oP are the iteration orders of the
\* sets the relaxed match returns; slots and m are the slot set handed to
\* match_entities and its result.
find_alt(self, current_slots, exclude, oL, oA, oP) ==
    LET alt_slots == [k \in SlotNames |-> IF k \in exclude THEN EmptyDictV
                                          ELSE current_slots[k]]
        m    == match_entities(self, alt_slots)
        dev  == IF "device" \notin exclude /\ Truthy(current_slots["device"])
                THEN english_list_of(current_slots["device"], Or) ELSE OkText(<<>>)
        loc  == IF "location" \in exclude /\ Truthy(current_slots["location"])
                THEN english_list("set", oL, And) ELSE OkText(<<>>)
        act  == IF "action" \in exclude /\ Truthy(current_slots["action"]) /\ m.actions # {}
                THEN english_list("set", oA, Or) ELSE OkText(<<>>)
        par  == IF "parameter" \in exclude /\ Truthy(current_slots["parameter"])
                   /\ m.attributes # {}
                THEN english_list("set", oP, And) ELSE OkText(<<>>)
        descr ==
            (IF "device" \notin exclude /\ Truthy(current_slots["device"])
             THEN << <<"called ">> \o dev.text >> ELSE <<>>)
            \o (IF "location" \in exclude /\ Truthy(current_slots["location"])
                THEN << <<"in ">> \o loc.text >> ELSE <<>>)
            \o (IF "action" \in exclude /\ Truthy(current_slots["action"])
                THEN IF m.actions # {} THEN << <<"that can ">> \o act.text >>
                     ELSE << <<"with no actions">> >>
                ELSE <<>>)
            \o (IF "parameter" \in exclude /\ Truthy(current_slots["parameter"])
                THEN IF m.attributes # {} THEN << <<"with a ">> \o par.text >>
                     ELSE << <<"with no parameters">> >>
                ELSE <<>>)
        raised == IF dev.raised # "" THEN dev.raised
                  ELSE IF loc.raised # "" THEN loc.raised
                  ELSE IF act.raised # "" THEN act.raised
                  ELSE par.raised
    IN  IF m.entities = {}
        THEN [raised |-> "", found |-> FALSE, text |-> <<>>, slots |-> alt_slots, m |-> m]
        ELSE IF raised # ""
        THEN [raised |-> raised, found |-> FALSE, text |-> <<>>, slots |-> alt_slots, m |-> m]
        ELSE [raised |-> "", found |-> TRUE,
              text |-> <<"However I did find ">> \o IntToStr(Cardinality(m.entities))
                       \o <<" devices ">> \o JoinSp(descr),
              slots |-> alt_slots, m |-> m]

\* What a turn of a form leaves behind: the exception that escaped run ("" if
\* none), the events returned, the slot set of every match_entities call in
\* order (calls), the current_slots after the extracted values were applied,
\* the result of the main match (m) and of the relaxed match (alt).
Outcome(raised, events, calls, current, m, alt) ==
    [raised |-> raised, events |-> events, calls |-> calls, current |-> current,
     m |-> m, alt |-> alt]

\* The record of a turn: its outcome, and the tracker.slots it started from
Turn(tracker, o) ==
    [tracker |-> tracker, raised |-> o.raised, events |-> o.events, calls |-> o.calls,
     current |-> o.current, m |-> o.m, alt |-> o.alt]

\* No turn yet
NoTurn == Turn(AllNone, Outcome("", <<>>, <<>>, AllNone, EmptyMatch, EmptyMatch))

\* The filters of the "no devices" message (actions.py 427-446): [raised, text]
no_devices_filters(form, current_slots) ==
    LET loc == IF Truthy(current_slots["location"])
               THEN IF current_slots["location"].t = "str"
                    THEN english_list("list", <<current_slots["location"].s>>, And)
                    ELSE english_list_of(current_slots["location"], And)
               ELSE OkText(<<>>)
        dev == IF current_slots["device"].t # "none"
               THEN english_list_of(current_slots["device"], And) ELSE OkText(<<>>)
        parBad == current_slots["parameter"].t \notin {"none", "str"}
        actBad == form = "amount" /\ current_slots["action"].t \notin {"none", "str"}
        filters ==
            (IF Truthy(current_slots["location"]) THEN << <<"in ">> \o loc.text >> ELSE <<>>)
            \o (IF current_slots["device"].t # "none"
                THEN << <<"called ">> \o dev.text >> ELSE <<>>)
            \o (IF current_slots["parameter"].t # "none"
                THEN << <<"with a ">> \o current_slots["parameter"].s >> ELSE <<>>)
            \o (IF form = "amount" /\ current_slots["action"].t # "none"
                THEN << <<"that we can ">> \o Replace(current_slots["action"].s, "_", " ") >>
                ELSE <<>>)
    IN  IF loc.raised # "" THEN Raise(loc.raised, <<>>)
        ELSE IF dev.raised # "" THEN Raise(dev.raised, <<>>)
        ELSE IF parBad THEN Raise("TypeError", <<>>)
        ELSE IF actBad THEN Raise("AttributeError", <<>>)
        ELSE OkText(JoinSp(filters))

\* The failure message alone, without the reset of the slots
no_devices_reply_keeps_slots(current_slots, m, filt, alt) ==
    IF alt.raised # ""
    THEN Outcome(alt.raised, <<>>, <<current_slots, alt.slots>>, current_slots, m, alt.m)
    ELSE Outcome("", << BotUttered(<<"Sorry, I don't know of any devices ">> \o filt.text
                                  \o <<".">>
                                  \o (IF alt.found THEN <<" ">> \o alt.text ELSE <<>>)) >>,
                 <<current_slots, alt.slots>>, current_slots, m, alt.m)

\* The failure message of the branch len(entity_ids) == 0, with the
\* suggestion alt that _find_alt made
no_devices_reply(current_slots, m, filt, alt) ==
    IF alt.raised # ""
    THEN Outcome(alt.raised, <<>>, <<current_slots, alt.slots>>, current_slots, m, alt.m)
    ELSE Outcome("", << BotUttered(<<"Sorry, I don't know of any devices ">> \o filt.text
                                  \o <<".">>
                                  \o (IF alt.found THEN <<" ">> \o alt.text ELSE <<>>)),
                        AllSlotsReset >>,
                 <<current_slots, alt.slots>>, current_slots, m, alt.m)

\* The branch len(entity_ids) == 0 of run (actions.py 231-259, 426-459)
no_devices(self, form, current_slots, m) ==
    LET filt == no_devices_filters(form, current_slots)
        alt0 == match_entities(self, [k \in SlotNames |->
                    IF k \in {"parameter", "action"} THEN EmptyDictV ELSE current_slots[k]])
    IN  IF filt.raised # ""
        THEN {Outcome(filt.raised, <<>>, <<current_slots>>, current_slots, m, EmptyMatch)}
        ELSE { no_devices_reply(current_slots, m, filt,
                   find_alt(self, current_slots, {"parameter", "action"}, oL, oA, oP))
               : oL \in SetOrders(alt0.locations), oA \in SetOrders(alt0.actions),
                 oP \in SetOrders(alt0.attributes) }

\* The same branch, were the device slot filled before the early return
ambiguous_after_device(current_slots, slots_to_set, m) ==
    Outcome("",
            <<BotUttered(<<"Found ">> \o IntToStr(Cardinality(m.entities)) \o <<" devices in ">>
                         \o IntToStr(Cardinality(m.locations))
                         \o <<" locations, but it sounds like you only wanted one. Do you want to adjust them all?">>)>>
            \o SlotSets(Put(slots_to_set, "device", ListV(SomeOrder(m.entities)))),
            <<current_slots>>, current_slots, m, EmptyMatch)

\* The branch len(entity_ids) > 1 and not multiple (actions.py 263-274, 463-474)
ambiguous(current_slots, slots_to_set, m) ==
    Outcome("",
            <<BotUttered(<<"Found ">> \o IntToStr(Cardinality(m.entities)) \o <<" devices in ">>
                         \o IntToStr(Cardinality(m.locations))
                         \o <<" locations, but it sounds like you only wanted one. Do you want to adjust them all?">>)>>
            \o SlotSets(slots_to_set),
            <<current_slots>>, current_slots, m, EmptyMatch)

\* _get_if_single(slots, elements, name)
get_if_single(slots, elements, name) ==
    IF Cardinality(elements) = 1 THEN Put(slots, name, StrV(CHOOSE e \in elements : TRUE))
    ELSE slots

\* The end of run, were the next slot decided on the slots as they were
\* before the matched devices are written
finish_before_device(form, current_slots, slots_to_set, m, entity_list) ==
    LET s1 == Put(slots_to_set, "device", ListV(entity_list))
        s2 == IF form = "amount" THEN get_if_single(s1, m.actions, "action") ELSE s1
        s3 == get_if_single(s2, m.locations, "location")
        s4 == get_if_single(s3, m.attributes, "parameter")
        next_slot == IF form = "amount" THEN next_slot_amount(current_slots)
                     ELSE next_slot_location(current_slots)
    IN  Outcome("",
                SlotSets(s4) \o (IF next_slot # None
                                 THEN <<SlotSet("requested_slot", next_slot)>>
                                 ELSE <<ActiveLoopNone>>),
                <<current_slots>>, current_slots, m, EmptyMatch)

\* The end of run, from "Found at least one matching entity" on
\* (actions.py 276-303, 476-500); entity_list is list(entity_ids).
finish(form, current_slots, slots_to_set, m, entity_list) ==
    LET s1 == Put(slots_to_set, "device", ListV(entity_list))
        s2 == IF form = "amount" THEN get_if_single(s1, m.actions, "action") ELSE s1
        s3 == get_if_single(s2, m.locations, "location")
        s4 == get_if_single(s3, m.attributes, "parameter")
        updated   == Apply(current_slots, s4)
        next_slot == IF form = "amount" THEN next_slot_amount(updated)
                     ELSE next_slot_location(updated)
    IN  Outcome("",
                SlotSets(s4) \o (IF next_slot # None
                                 THEN <<SlotSet("requested_slot", next_slot)>>
                                 ELSE <<ActiveLoopNone>>),
                <<current_slots>>, current_slots, m, EmptyMatch)

\* run without the question for more devices than expected
validate_always_finish(self, form, current_slots, slots_to_set) ==
    LET m == match_entities(self, current_slots) IN
    IF Cardinality(m.entities) = 0 THEN no_devices(self, form, current_slots, m)
    ELSE {finish(form, current_slots, slots_to_set, m, o) : o \in Orders(m.entities)}

\* run, after the slots are extracted
validate(self, form, current_slots, slots_to_set) ==
    LET m == match_entities(self, current_slots) IN
    IF Cardinality(m.entities) = 0 THEN no_devices(self, form, current_slots, m)
    ELSE IF Cardinality(m.entities) > 1 /\ ~Truthy(current_slots["multiple"])
    THEN {ambiguous(current_slots, slots_to_set, m)}
    ELSE {finish(form, current_slots, slots_to_set, m, o) : o \in Orders(m.entities)}

Crash(e) == {Outcome(e, <<>>, <<>>, AllNone, EmptyMatch, EmptyMatch)}

\* DeviceLocationForm.run (form = "location") and DeviceAmountForm.run
\* (form = "amount"): the set of outcomes the turn can have on tracker.slots
\* = tracker (one outcome for each iteration order of the sets involved).
run(self, form, tracker) ==
    LET current_slots == get_slots_from_tracker(tracker)
        loc == extract_location(self, current_slots["location"])
        act == IF form = "amount" THEN extract_action(current_slots["action"])
               ELSE Ok(EmptyDict)
        amt == IF form = "amount"
               THEN extract_amount(current_slots["amount"], current_slots["action"])
               ELSE Ok(EmptyDict)
        dev == extract_device(current_slots["device"])
        slots_to_set == Update(Update(Update(loc.upd, act.upd), amt.upd), dev.upd)
    IN  IF loc.raised = "UnknownName"
        THEN {Outcome("", <<BotUttered(loc.text)>>, <<>>, current_slots, EmptyMatch,
                      EmptyMatch)}
        ELSE IF loc.raised # "" THEN Crash(loc.raised)
        ELSE IF act.raised # "" THEN Crash(act.raised)
        ELSE IF amt.raised # "" THEN Crash(amt.raised)
        ELSE IF dev.raised # "" THEN Crash(dev.raised)
        ELSE validate(self, form, Apply(current_slots, slots_to_set), slots_to_set)

(***************************************************************************)
(* The submit actions (actions.py) and the adjustments of HassIface        *)
(* (hass_if.py).                                                           *)
(*                                                                         *)
(* hass.states holds, for every entity, its state (a str) and the values   *)
(* of its attributes; an int is held as the float of the same value, which *)
(* is what it becomes in `current_value + amount`.  A service call is      *)
(* recorded as [domain, service, entity_id, key, val]: key is the name of  *)
(* the second entry of service_data (<<>> if there is none) and val its    *)
(* value.  hass.services.async_call raises ServiceNotFound for a service   *)
(* the domain does not register; the validation of service_data against   *)
(* the schema of the service is not modelled.                              *)
(*                                                                         *)
(* The progress of a loop over devices is a record [raised, text,          *)
(* success, handed, services]: the exception raised ("" if none) and its   *)
(* text, the success_ids so far, the (entity_id, parameter, amount) handed *)
(* to _apply_abs_adjustment so far and the service calls made so far.      *)
(***************************************************************************)
NoProgress == [raised |-> "", text |-> <<>>, success |-> <<>>, handed |-> <<>>,
               services |-> <<>>]

Fail(acc, e, txt) == [acc EXCEPT !.raised = e, !.text = txt]

\* self._hass.states.get(did); the entities of `removed` are gone
StatesGet(hs, removed, did) ==
    LET found == SelectSeq(hs.states, LAMBDA st : st.entity_id = did /\ did \notin removed)
    IN  IF found = <<>> THEN <<>> ELSE <<found[1]>>

\* isinstance(v, (int, float))
IsNumber(v) == v.t \in {"num", "bool"}

PARAM_TO_SVC ==
    (Lit.temperature :> Lit.set_temperature)
    @@ (Lit.humidity :> Lit.set_humidity)
    @@ (Lit.volume :> Lit.volume_set)

\* hass.services.async_call(domain, service, service_data)
async_call(hs, acc, domain, service, did, key, val) ==
    IF domain \notin DOMAIN hs.services \/ service \notin Range(hs.services[domain])
    THEN Fail(acc, "ServiceNotFound", <<>>)
    ELSE [acc EXCEPT !.services = Append(@, [domain |-> domain, service |-> service,
                                             entity_id |-> did, key |-> key, val |-> val])]

\* `parameter in state.attributes`
InAttributes(parameter, state) ==
    parameter.t = "str" /\ parameter.s \in Range(state.attributes)

\* A threshold of 1 whatever the attributes are
threshold_of_one(parameter, state) == FloatOfInt(1)

\* threshold in _apply_abs_adjustment: 1 with the attribute, 20 without
threshold(parameter, state) ==
    FloatOfInt(IF InAttributes(parameter, state) THEN 1 ELSE 20)

\* new_state in _apply_abs_adjustment, for an amount that is a number
new_state(parameter, amount, state) ==
    IF state.state = Lit.off /\ ~FloatLess(amount.n, threshold(parameter, state))
    THEN Lit.on
    ELSE IF state.state = Lit.on
            /\ FloatLess(FloatAbs(amount.n), threshold(parameter, state))
    THEN Lit.off
    ELSE state.state

\* HassIface._apply_abs_adjustment.  Comparing a str or None with a number
\* raises TypeError; `svc` is bound only when the parameter has a service
\* of its own or the new state is "on" or "off".
apply_abs_adjustment_state(hs, acc, parameter, amount, state) ==
    LET has == InAttributes(parameter, state)
        compares  == state.state \in {Lit.on, Lit.off}
        own == parameter.t = "str" /\ parameter.s \in DOMAIN PARAM_TO_SVC
        handed == [acc EXCEPT !.handed = Append(@, [entity_id |-> state.entity_id,
                                                    parameter |-> parameter,
                                                    amount |-> amount])]
    IN  IF compares /\ ~IsNumber(amount) THEN Fail(handed, "TypeError", <<>>)
        ELSE IF ~own /\ new_state(parameter, amount, state) \notin {Lit.on, Lit.off}
        THEN Fail(handed, "UnboundLocalError", <<>>)
        ELSE async_call(hs, handed, state.domain,
                        IF own THEN PARAM_TO_SVC[parameter.s]
                        ELSE IF new_state(parameter, amount, state) = Lit.on
                        THEN Lit.turn_on ELSE Lit.turn_off,
                        state.entity_id,
                        IF has THEN parameter.s ELSE <<>>,
                        IF has THEN amount ELSE None)

Succeed(acc, did) ==
    IF acc.raised # "" THEN acc ELSE [acc EXCEPT !.success = Append(@, did)]

\* HassIface.apply_abs_adjustment, from the i-th device on
RECURSIVE apply_abs_adjustment_from(_, _, _, _, _, _, _)
apply_abs_adjustment_from(hs, removed, device_ids, parameter, amount, i, acc) ==
    IF i > Len(device_ids) \/ acc.raised # "" THEN acc
    ELSE LET did   == device_ids[i]
             state == StatesGet(hs, removed, did)
         IN  IF state = <<>>
             THEN Fail(acc, "ValueError", <<"Entity '">> \o did \o <<"' does not exist">>)
             ELSE apply_abs_adjustment_from(hs, removed, device_ids, parameter, amount, i + 1,
                      Succeed(apply_abs_adjustment_state(hs, acc, parameter, amount,
                                                         state[1]), did))

apply_abs_adjustment(hs, removed, device_ids, parameter, amount) ==
    apply_abs_adjustment_from(hs, removed, device_ids, parameter, amount, 1, NoProgress)

\* state.attributes.get(parameter, None), and 0.0 for None
CurrentValue(state, parameter) ==
    LET v == IF parameter.t = "str" /\ parameter.s \in Range(state.attributes)
             THEN state.values[parameter.s] ELSE None
    IN  IF v = None THEN NumV(FloatZero) ELSE v

\* HassIface.apply_rel_adjustment, from the i-th device on; amount is a
\* number
RECURSIVE apply_rel_adjustment_from(_, _, _, _, _, _, _)
apply_rel_adjustment_from(hs, removed, device_ids, parameter, amount, i, acc) ==
    IF i > Len(device_ids) \/ acc.raised # "" THEN acc
    ELSE LET did   == device_ids[i]
             state == StatesGet(hs, removed, did)
         IN  IF state = <<>>
             THEN Fail(acc, "ValueError", <<"Entity '">> \o did \o <<"' does not exist">>)
             ELSE LET current_value == CurrentValue(state[1], parameter)
                      new_amount    == NumV(FloatAdd(current_value.n, amount.n))
                  IN  apply_rel_adjustment_from(hs, removed, device_ids, parameter, amount,
                          i + 1,
                          IF ~IsNumber(current_value) THEN acc
                          ELSE Succeed(apply_abs_adjustment_state(hs, acc, parameter,
                                                                  new_amount, state[1]),
                                       did))

\* apply_rel_adjustment that fails as a whole on the first device whose
\* current value is not a number
apply_rel_adjustment_whole(hs, removed, device_ids, parameter, amount) ==
    LET bad == {i \in 1..Len(device_ids) :
                  /\ StatesGet(hs, removed, device_ids[i]) # <<>>
                  /\ ~IsNumber(CurrentValue(StatesGet(hs, removed, device_ids[i])[1],
                                             parameter))}
    IN  IF bad = {}
        THEN apply_rel_adjustment_from(hs, removed, device_ids, parameter, amount, 1,
                                       NoProgress)
        ELSE Fail(apply_rel_adjustment_from(
                      hs, removed,
                      SubSeq(device_ids, 1, (CHOOSE i \in bad : \A j \in bad : i <= j) - 1),
                      parameter, amount, 1, NoProgress),
                  "TypeError", <<>>)

apply_rel_adjustment(hs, removed, device_ids, parameter, amount) ==
    apply_rel_adjustment_from(hs, removed, device_ids, parameter, amount, 1, NoProgress)

\* HassIface.apply_action, from the i-th device on; it returns device_ids
RECURSIVE apply_action_from(_, _, _, _, _, _)
apply_action_from(hs, removed, action, device_ids, i, acc) ==
    IF acc.raised # "" THEN acc
    ELSE IF i > Len(device_ids) THEN [acc EXCEPT !.success = device_ids]
    ELSE LET did   == device_ids[i]
             state == StatesGet(hs, removed, did)
         IN  IF state = <<>>
             THEN Fail(acc, "ValueError", <<"No such device '">> \o did \o <<"'">>)
             ELSE LET called == async_call(hs, acc, state[1].domain, action, did, <<>>, None)
                  IN  apply_action_from(hs, removed, action, device_ids, i + 1,
                          IF called.raised = "ServiceNotFound"
                          THEN Fail(acc, "ValueError",
                                    <<"No action ">> \o action \o <<" exists for ">>
                                    \o state[1].domain)
                          ELSE called)

apply_action(hs, removed, action, device_ids) ==
    apply_action_from(hs, removed, action, device_ids, 1, NoProgress)

\* What a submit action did on tracker.slots = tracker: the exception it
\* raised ("" if none), the events it returned, and the progress of the
\* adjustment it made
Submitted(tracker, removed, raised, events, did) ==
    [tracker |-> tracker, removed |-> removed, raised |-> raised, events |-> events,
     success |-> did.success, handed |-> did.handed, services |-> did.services]

NotSubmitted == Submitted(AllNone, {}, "", <<>>, NoProgress)

\* The end of each branch of SubmitAdjust.run.  The adjustment returns the
\* list of devices as cnt, and `cnt > 0` in the message raises TypeError;
\* a ValueError becomes the message; any other exception is not caught.
Report(tracker, removed, did) ==
    IF did.raised = "" THEN Submitted(tracker, removed, "TypeError", <<>>, did)
    ELSE IF did.raised = "ValueError"
    THEN Submitted(tracker, removed, "", <<BotUttered(did.text), AllSlotsReset>>, did)
    ELSE Submitted(tracker, removed, did.raised, <<>>, did)

\* SubmitAdjust.run; the entities of `removed` have left Home Assistant
\* since the catalog was loaded
SubmitAdjust_run(hs, removed, tracker) ==
    LET action  == tracker["action"]
        devices == tracker["device"].l
        param   == tracker["parameter"]
        amount  == tracker["amount"]
    IN  IF action = StrV(Lit.set_relative)
        THEN IF ~IsNumber(amount)
             THEN Submitted(tracker, removed, "",
                            << BotUttered(<<"Sorry, I didn't understand the relative amount ">>
                                          \o amount.s),
                               AllSlotsReset >>, NoProgress)
             ELSE Report(tracker, removed,
                         apply_rel_adjustment(hs, removed, devices, param, amount))
        ELSE IF action = StrV(Lit.set_absolute)
        THEN Report(tracker, removed,
                    apply_abs_adjustment(hs, removed, devices, param, amount))
        ELSE Report(tracker, removed, apply_action(hs, removed, action.s, devices))

\* SubmitQuery.run
SubmitQuery_run(tracker) ==
    Submitted(tracker, {}, "",
              <<BotUttered(<<"Unimplemented, come back later.">>), AllSlotsReset>>,
              NoProgress)

(***************************************************************************)
(* The dialogue.                                                           *)
(*                                                                         *)
(* The Rasa server (not part of this repository) keeps tracker.slots,      *)
(* fills slots from what the user says, runs the validation action of the  *)
(* active form on every turn, applies the events it returns, and runs the  *)
(* submit action once the form is terminated.  What the user can say is    *)
(* drawn from the vocabularies below.                                      *)
(***************************************************************************)
MaxTurns == 2

LocationWords  == {Word.Kitchen, Word.living_room_sp, Word.upstairs, Word.garage, Lit.all}
DeviceWords    == {Word.lamp, Word.light, Word.lights, Word.blind}
ParameterWords == {Lit.brightness, Lit.volume, Lit.volume_level}
ActionWords    == {Word.turn_off_sp, Lit.set, Word.stop, Lit.increase}
AmountPhrases  == {Word.thirty_percent, Word.a_lot}

Maybe(W) == {None} \cup {StrV(w) : w \in W}

\* What the user can answer when the slot `name` was requested
AnswersFor(name) ==
    CASE name = "location"  -> LocationWords
      [] name = "device"    -> DeviceWords
      [] name = "parameter" -> ParameterWords
      [] name = "action"    -> ActionWords
      [] name = "amount"    -> AmountPhrases
      [] OTHER -> {}

VARIABLES
    hass,    \* the Home Assistant instance: an index of Homes (in SpecRegistry:
             \* one of Registries)
    iface,   \* the HassIface object registered with the action server
    form,    \* the form of the dialogue: "location" or "amount"
    slots,   \* tracker.slots
    active,  \* a form is active (the active loop)
    pc,      \* "load", "listen", "validate" or "submit"
    turns,   \* the turns of the form run in this dialogue
    out,     \* the last turn of the dialogue: Turn(tracker, outcome)
    sub,     \* what the submit action of the dialogue did
    other    \* the conversation that is waiting while this one takes a step

vars == <<hass, iface, form, slots, active, pc, turns, out, sub, other>>

\* A conversation: what the Rasa server keeps of a dialogue
Conversation(f, s, a, p, t, o, u) ==
    [form |-> f, slots |-> s, active |-> a, pc |-> p, turns |-> t, out |-> o, sub |-> u]

\* A conversation in which nothing was said yet
Fresh == Conversation("amount", AllNone, FALSE, "listen", 0, NoTurn, NotSubmitted)

\* The tracker after the events of a turn are applied
RECURSIVE ApplyEvents(_, _, _)
ApplyEvents(s, events, i) ==
    IF i > Len(events) THEN s
    ELSE IF events[i].ev = "SlotSet"
    THEN ApplyEvents([s EXCEPT ![events[i].key] = events[i].val], events, i + 1)
    ELSE IF events[i].ev = "AllSlotsReset" THEN ApplyEvents(AllNone, events, i + 1)
    ELSE ApplyEvents(s, events, i + 1)

HasEvent(events, ev) == \E i \in 1..Len(events) : events[i].ev = ev

Init ==
    /\ hass \in 1..Len(Homes)
    /\ iface = EmptyIface
    /\ form = "amount"
    /\ slots = AllNone
    /\ active = FALSE
    /\ pc = "load"
    /\ turns = 0
    /\ out = NoTurn
    /\ sub = NotSubmitted
    /\ other = Fresh

\* HassIface.load, at start-up
Load ==
    /\ pc = "load"
    /\ iface' = load(iface, Homes[hass])
    /\ pc' = "listen"
    /\ UNCHANGED <<hass, form, slots, active, turns, out, sub, other>>

\* The user opens a dialogue: the utterance fills any of the slots and
\* activates a form.
Utter ==
    /\ pc = "listen" /\ ~active
    /\ \E f \in {"location", "amount"},
          l \in Maybe(LocationWords), d \in Maybe(DeviceWords),
          p \in Maybe(ParameterWords), a \in Maybe(ActionWords),
          n \in Maybe(AmountPhrases) :
          /\ f = "location" => n = None
          /\ form' = f
          /\ slots' = [AllNone EXCEPT !["location"] = l, !["device"] = d,
                                      !["parameter"] = p, !["action"] = a,
                                      !["amount"] = n]
    /\ active' = TRUE
    /\ pc' = "validate"
    /\ turns' = 0
    /\ out' = NoTurn
    /\ sub' = NotSubmitted
    /\ UNCHANGED <<hass, iface, other>>

\* The user answers: the requested slot if one was requested, else (after a
\* question or a failure) a location or a device again, or "yes, all of
\* them" (multiple).
Answer ==
    /\ pc = "listen" /\ active /\ turns < MaxTurns
    /\ \/ /\ slots["requested_slot"] # None
          /\ \E name \in SlotNames :
                /\ slots["requested_slot"] = StrV(<<name>>)
                /\ \E w \in AnswersFor(name) : slots' = [slots EXCEPT ![name] = StrV(w)]
       \/ /\ slots["requested_slot"] = None
          /\ \/ \E w \in LocationWords : slots' = [slots EXCEPT !["location"] = StrV(w)]
             \/ \E w \in DeviceWords : slots' = [slots EXCEPT !["device"] = StrV(w)]
             \/ slots' = [slots EXCEPT !["multiple"] = TrueV]
    /\ pc' = "validate"
    /\ UNCHANGED <<hass, iface, form, active, turns, out, sub, other>>

\* A turn of a form that kept its current_slots from one call of run to the
\* next: the slots this conversation has not set are those the other
\* conversation left behind
Validate_shared ==
    /\ pc = "validate"
    /\ \E o \in run(iface, form, [k \in SlotNames |->
                                     IF slots[k] = None THEN other.slots[k] ELSE slots[k]]) :
          /\ out' = Turn(slots, o)
          /\ slots' = ApplyEvents(slots, o.events, 1)
          /\ pc' = IF HasEvent(o.events, "ActiveLoop") THEN "submit"
                   ELSE IF HasEvent(o.events, "AllSlotsReset") THEN "done"
                   ELSE "listen"
          /\ active' = ~(HasEvent(o.events, "ActiveLoop") \/ HasEvent(o.events, "AllSlotsReset"))
    /\ turns' = turns + 1
    /\ UNCHANGED <<hass, iface, form, sub, other>>

\* One turn: the validation action of the form runs on the tracker and its
\* events are applied.  An exception leaves the tracker as it was.  A form
\* that is terminated is followed by its submit action; a reset of all
\* slots ends the dialogue.
Validate ==
    /\ pc = "validate"
    /\ \E o \in run(iface, form, slots) :
          /\ out' = Turn(slots, o)
          /\ slots' = ApplyEvents(slots, o.events, 1)
          /\ pc' = IF HasEvent(o.events, "ActiveLoop") THEN "submit"
                   ELSE IF HasEvent(o.events, "AllSlotsReset") THEN "done"
                   ELSE "listen"
          /\ active' = ~(HasEvent(o.events, "ActiveLoop") \/ HasEvent(o.events, "AllSlotsReset"))
    /\ turns' = turns + 1
    /\ UNCHANGED <<hass, iface, form, sub, other>>

\* The submit action of the terminated form runs on the tracker; at most
\* one of the devices has left Home Assistant since the catalog was loaded.
\* Its events are applied; an exception leaves the tracker as it was.
\* Either way the dialogue is over.
Submit ==
    /\ pc = "submit"
    /\ \E removed \in {{}} \cup {{d} : d \in Range(slots["device"].l)} :
          sub' = IF form = "amount" THEN SubmitAdjust_run(HomeAt(hass), removed, slots)
                 ELSE SubmitQuery_run(slots)
    /\ slots' = ApplyEvents(slots, sub'.events, 1)
    /\ pc' = "done"
    /\ UNCHANGED <<hass, iface, form, active, turns, out, other>>

\* The dialogue is over; the next one starts from a fresh tracker.
Restart ==
    /\ pc = "done"
    /\ form' = "amount"
    /\ slots' = AllNone
    /\ active' = FALSE
    /\ pc' = "listen"
    /\ turns' = 0
    /\ out' = NoTurn
    /\ sub' = NotSubmitted
    /\ UNCHANGED <<hass, iface, other>>

Next == Load \/ Utter \/ Answer \/ Validate \/ Submit \/ Restart

Spec == Init /\ [][Next]_vars

(***************************************************************************)
(* The action server at work: the catalog is loaded again while dialogues  *)
(* go on, and two conversations take their turns against the one           *)
(* HassIface.  The action server runs in the event loop of Home Assistant  *)
(* (action_server.py 253): a coroutine is interleaved with the others only *)
(* at an await.  DeviceLocationForm.run and DeviceAmountForm.run hold no   *)
(* await, so a turn is one step; HassIface.load holds one, before the      *)
(* first of its six assignments, so the assignments are one step.          *)
(***************************************************************************)
BriefLocations == {Word.garage}
BriefDevices   == {Word.lamp, Word.blind}
BriefActions   == {Word.turn_off_sp}

\* The user opens a dialogue of the adjust form with a short utterance
UtterBrief ==
    /\ pc = "listen" /\ ~active
    /\ \E l \in Maybe(BriefLocations), d \in Maybe(BriefDevices),
          a \in Maybe(BriefActions) :
          slots' = [AllNone EXCEPT !["location"] = l, !["device"] = d, !["action"] = a]
    /\ form' = "amount"
    /\ active' = TRUE
    /\ pc' = "validate"
    /\ turns' = 0
    /\ out' = NoTurn
    /\ sub' = NotSubmitted
    /\ UNCHANGED <<hass, iface, other>>

\* HassIface.load, again: Home Assistant has changed in the meantime
Reload ==
    /\ pc # "load"
    /\ \E h \in 1..Len(Homes) :
          /\ hass' = h
          /\ iface' = load(iface, Homes[h])
    /\ UNCHANGED <<form, slots, active, pc, turns, out, sub, other>>

NextReload == Load \/ Reload \/ UtterBrief \/ Answer \/ Validate \/ Submit \/ Restart

SpecReload == Init /\ [][NextReload]_vars

\* The event loop turns to the other conversation
Switch ==
    /\ pc # "load"
    /\ other' = Conversation(form, slots, active, pc, turns, out, sub)
    /\ form' = other.form
    /\ slots' = other.slots
    /\ active' = other.active
    /\ pc' = other.pc
    /\ turns' = other.turns
    /\ out' = other.out
    /\ sub' = other.sub
    /\ UNCHANGED <<hass, iface>>

NextTwo == Load \/ Switch \/ UtterBrief \/ Answer \/ Validate \/ Submit \/ Restart

SpecTwo == Init /\ [][NextTwo]_vars

(***************************************************************************)
(* Registries that are out of step: the home Hass2 in which the entity     *)
(* registry names, for each entity, no area, an area of the area registry  *)
(* or the area "attic" that the area registry does not hold, and the area  *)
(* registry names, for each area, no floor, the floor of the floor         *)
(* registry or the floor "basement" that the floor registry does not hold. *)
(***************************************************************************)
AreaRefs  == {<<>>, Word.kitchen, Word.bedroom, Word.attic}
FloorRefs == {<<>>, Word.upstairs, Word.basement}

Registries == [entity_area : [DOMAIN Hass2.entities -> AreaRefs],
               area_floor  : [DOMAIN Hass2.areas -> FloorRefs]]

RegistryHome(r) ==
    [Hass2 EXCEPT
       !.entities = [e \in DOMAIN Hass2.entities |->
                       [Hass2.entities[e] EXCEPT !.area_id = r.entity_area[e]]],
       !.areas = [a \in DOMAIN Hass2.areas |->
                    [Hass2.areas[a] EXCEPT !.floor_id = r.area_floor[a]]]]

InitRegistry ==
    /\ hass \in Registries
    /\ iface = EmptyIface
    /\ form = "amount"
    /\ slots = AllNone
    /\ active = FALSE
    /\ pc = "load"
    /\ turns = 0
    /\ out = NoTurn
    /\ sub = NotSubmitted
    /\ other = Fresh

\* HassIface.load, at start-up, from registries that may be out of step
LoadRegistry ==
    /\ pc = "load"
    /\ iface' = load(iface, RegistryHome(hass))
    /\ pc' = "listen"
    /\ UNCHANGED <<hass, form, slots, active, turns, out, sub, other>>

NextRegistry == LoadRegistry

SpecRegistry == InitRegistry /\ [][NextRegistry]_vars

(***************************************************************************)
(* The next-slot decision of the adjust form on its own: _next_slot is     *)
(* applied to the current_slots a run can hand to it, and to those with no *)
(* device or an empty list of devices.                                     *)
(***************************************************************************)
NextSlotInputs ==
    { [AllNone EXCEPT !["action"] = a, !["device"] = d, !["multiple"] = m,
                      !["amount"] = n, !["parameter"] = p] :
        a \in {None, StrV(<<>>), StrV(Lit.turn_off), StrV(Lit.set_absolute),
               StrV(Lit.set_relative)},
        d \in {None, StrV(Word.lamp), ListV(<<>>), ListV(<<Word.light_lamp>>),
               ListV(<<Word.light_lamp, Word.light_ceiling>>)},
        m \in {None, TrueV},
        n \in {None, NumV(FloatZero), NumV(FloatOfRatio(FALSE, 3, 10)), StrV(Word.a_lot)},
        p \in {None, StrV(<<>>), StrV(Lit.brightness)} }

InitNextSlot ==
    /\ hass = 1
    /\ iface = EmptyIface
    /\ form = "amount"
    /\ slots \in NextSlotInputs
    /\ active = TRUE
    /\ pc = "validate"
    /\ turns = 0
    /\ out = NoTurn
    /\ sub = NotSubmitted
    /\ other = Fresh

\* next_slot = self._next_slot(current_slots), and what run does with it
\* (actions.py 493-500): the slot is requested, or the form terminates
Decide ==
    /\ pc = "validate"
    /\ slots' = [slots EXCEPT !["requested_slot"] = next_slot_amount(slots)]
    /\ active' = (next_slot_amount(slots) # None)
    /\ pc' = "listen"
    /\ UNCHANGED <<hass, iface, form, turns, out, sub, other>>

NextNextSlot == Decide

SpecNextSlot == InitNextSlot /\ [][NextNextSlot]_vars

(***************************************************************************)
(* match_entities on its own: the catalog of Hass4 is matched against slot *)
(* sets as run hands them over (the location a list of area ids, the       *)
(* device a list of names).                                                *)
(***************************************************************************)
MatchInputs ==
    { [AllNone EXCEPT !["location"] = l, !["device"] = d, !["parameter"] = p,
                      !["action"] = a] :
        l \in {None, ListV(<<Word.kitchen>>), ListV(<<Word.bedroom>>)},
        d \in {None, ListV(<<Word.lamp>>), ListV(<<Word.thermo>>), ListV(<<Word.movie>>)},
        p \in {None, StrV(Lit.brightness), StrV(Lit.temperature), StrV(Lit.volume),
               ListV(<<Lit.brightness, Lit.temperature>>)},
        a \in {None, StrV(Lit.set_absolute), StrV(Lit.set_relative), StrV(Word.turn_on)} }

InitMatch ==
    /\ hass = Len(Homes) + 1
    /\ iface = EmptyIface
    /\ form = "amount"
    /\ slots = AllNone
    /\ active = FALSE
    /\ pc = "load"
    /\ turns = 0
    /\ out = NoTurn
    /\ sub = NotSubmitted
    /\ other = Fresh

\* HassIface.load, at start-up, in the home Hass4
LoadMatch ==
    /\ pc = "load"
    /\ iface' = load(iface, Hass4)
    /\ pc' = "listen"
    /\ UNCHANGED <<hass, form, slots, active, turns, out, sub, other>>

\* A turn has its current_slots ready
Ask ==
    /\ pc = "listen"
    /\ slots' \in MatchInputs
    /\ out' = NoTurn
    /\ pc' = "validate"
    /\ UNCHANGED <<hass, iface, form, active, turns, sub, other>>

\* match = _HASS_IF.match_entities(current_slots)
Match ==
    /\ pc = "validate"
    /\ out' = Turn(slots, Outcome("", <<>>, <<slots>>, slots, match_entities(iface, slots),
                                  EmptyMatch))
    /\ pc' = "listen"
    /\ UNCHANGED <<hass, iface, form, slots, active, turns, sub, other>>

NextMatch == LoadMatch \/ Ask \/ Match

SpecMatch == InitMatch /\ [][NextMatch]_vars

(***************************************************************************)
(* match_entities and the locations: the home Hass5 has a floor and an     *)
(* area that both have the id "garage" (the area registry and the floor    *)
(* registry make their ids from the names independently), a floor with one *)
(* area, an area on no floor and a device in no area.  The location is     *)
(* handed over as one id or as a list of ids, as the forms do.             *)
(***************************************************************************)
Hass5 ==
    [states   |-> << [entity_id |-> Word.cover_blind, name |-> Word.Blind, domain |-> Word.cover,
                      attributes |-> <<Lit.current_position>>,
                      state |-> Word.open,
                      values |-> (Lit.current_position :> NumV(FloatOfInt(100)))],
                     [entity_id |-> Word.media_player_tv, name |-> Word.TV,
                      domain |-> Lit.media_player,
                      attributes |-> <<Lit.volume_level>>,
                      state |-> Lit.on,
                      values |-> (Lit.volume_level :> NumV(FloatOfRatio(FALSE, 6, 10)))],
                     [entity_id |-> Word.light_ceiling, name |-> Word.Ceiling,
                      domain |-> Word.light, attributes |-> <<Lit.brightness>>,
                      state |-> Lit.off,
                      values |-> (Lit.brightness :> None)],
                     [entity_id |-> Word.light_lamp, name |-> Word.Lamp, domain |-> Word.light,
                      attributes |-> <<Lit.brightness>>,
                      state |-> Lit.on,
                      values |-> (Lit.brightness :> NumV(FloatOfInt(200)))],
                     [entity_id |-> Word.switch_lights, name |-> Word.Lights,
                      domain |-> Word.switch, attributes |-> <<Word.friendly_name>>,
                      state |-> Lit.off,
                      values |-> (Word.friendly_name :> StrV(Word.Lights))] >>,
     exposed  |-> {Word.cover_blind, Word.media_player_tv, Word.light_ceiling,
                   Word.light_lamp, Word.switch_lights},
     entities |-> (Word.cover_blind :> [aliases |-> <<>>, area_id |-> Word.garage,
                                         device_id |-> <<>>])
                  @@ (Word.media_player_tv :> [aliases |-> <<>>, area_id |-> Word.living_room,
                                               device_id |-> <<>>])
                  @@ (Word.light_ceiling :> [aliases |-> <<>>, area_id |-> Word.bedroom,
                                             device_id |-> <<>>])
                  @@ (Word.light_lamp :> [aliases |-> <<>>, area_id |-> Word.kitchen,
                                          device_id |-> <<>>])
                  @@ (Word.switch_lights :> [aliases |-> <<>>, area_id |-> <<>>,
                                             device_id |-> <<>>]),
     devices  |-> <<>>,
     areas    |-> (Word.garage :> [name |-> Word.Garage, aliases |-> <<>>,
                                   floor_id |-> Word.garage])
                  @@ (Word.living_room :> [name |-> Word.Living_Room, aliases |-> <<>>,
                                           floor_id |-> Word.garage])
                  @@ (Word.bedroom :> [name |-> Word.Bedroom, aliases |-> <<>>,
                                       floor_id |-> Word.upstairs])
                  @@ (Word.kitchen :> [name |-> Word.Kitchen, aliases |-> <<>>,
                                       floor_id |-> <<>>]),
     floors   |-> (Word.garage :> [name |-> Word.Garage, aliases |-> <<>>])
                  @@ (Word.upstairs :> [name |-> Word.Upstairs, aliases |-> <<>>]),
     services |-> (Word.light :> LightServices)
                  @@ (Word.switch :> <<Word.turn_on, Word.turn_off>>)
                  @@ (Word.cover :> <<Word.open_cover, Word.close_cover, Word.stop_cover>>)
                  @@ (Lit.media_player :> <<Word.turn_on, Word.turn_off, Word.volume_set,
                                            Word.media_stop>>)]

LocateInputs ==
    { [AllNone EXCEPT !["location"] = l, !["device"] = d, !["parameter"] = p,
                      !["action"] = a] :
        l \in {None}
              \cup {StrV(x) : x \in {Word.kitchen, Word.garage, Word.living_room,
                                      Word.bedroom, Word.upstairs}}
              \cup {ListV(<<Word.kitchen, Word.upstairs>>), ListV(<<Word.garage, Word.bedroom>>),
                    ListV(<<Word.living_room, Word.kitchen>>)},
        d \in {None, ListV(<<Word.light>>), ListV(<<Word.lights>>)},
        p \in {None, StrV(Lit.brightness)},
        a \in {None, StrV(Lit.set_absolute), StrV(Word.turn_on)} }

InitLocate ==
    /\ hass = Len(Homes) + 1
    /\ iface = EmptyIface
    /\ form = "amount"
    /\ slots = AllNone
    /\ active = FALSE
    /\ pc = "load"
    /\ turns = 0
    /\ out = NoTurn
    /\ sub = NotSubmitted
    /\ other = Fresh

\* HassIface.load, at start-up, in the home Hass5
LoadLocate ==
    /\ pc = "load"
    /\ iface' = load(iface, Hass5)
    /\ pc' = "listen"
    /\ UNCHANGED <<hass, form, slots, active, turns, out, sub, other>>

\* A turn has its current_slots ready
AskLocate ==
    /\ pc = "listen"
    /\ slots' \in LocateInputs
    /\ out' = NoTurn
    /\ pc' = "validate"
    /\ UNCHANGED <<hass, iface, form, active, turns, sub, other>>

NextLocate == LoadLocate \/ AskLocate \/ Match

SpecLocate == InitLocate /\ [][NextLocate]_vars

(***************************************************************************)
(* Names that collide: the home Hass2 in which each of the three entities  *)
(* has one of three names and no alias or one of two aliases, so that two  *)
(* entities can share a name, an alias, or the name of one can be the      *)
(* alias of the other.                                                     *)
(***************************************************************************)
NameRegistries == [name  : [DOMAIN Hass2.entities -> {Word.Lamp, Word.Lights, Word.Ceiling}],
                   alias : [DOMAIN Hass2.entities -> {<<>>, <<Word.lamp>>, <<Word.spot>>}]]

NamedHome(r) ==
    [Hass2 EXCEPT
       !.states = [i \in 1..Len(Hass2.states) |->
                     [Hass2.states[i] EXCEPT !.name = r.name[Hass2.states[i].entity_id]]],
       !.entities = [e \in DOMAIN Hass2.entities |->
                       [Hass2.entities[e] EXCEPT !.aliases = r.alias[e]]]]

InitNames ==
    /\ hass \in NameRegistries
    /\ iface = EmptyIface
    /\ form = "amount"
    /\ slots = AllNone
    /\ active = FALSE
    /\ pc = "load"
    /\ turns = 0
    /\ out = NoTurn
    /\ sub = NotSubmitted
    /\ other = Fresh

\* HassIface.load, at start-up, from entities whose names may collide
LoadNames ==
    /\ pc = "load"
    /\ iface' = load(iface, NamedHome(hass))
    /\ pc' = "listen"
    /\ UNCHANGED <<hass, form, slots, active, turns, out, sub, other>>

NextNames == LoadNames

SpecNames == InitNames /\ [][NextNames]_vars

(***************************************************************************)
(* Dialogues that open with one of the location sentinels.                 *)
(***************************************************************************)
Sentinels == {Lit.any, Lit.all, Lit.each}

\* The user opens a dialogue that names every location
UtterSentinel ==
    /\ pc = "listen" /\ ~active
    /\ \E f \in {"location", "amount"}, l \in Sentinels,
          d \in Maybe(DeviceWords), a \in Maybe(ActionWords) :
          /\ form' = f
          /\ slots' = [AllNone EXCEPT !["location"] = StrV(l), !["device"] = d,
                                      !["action"] = a]
    /\ active' = TRUE
    /\ pc' = "validate"
    /\ turns' = 0
    /\ out' = NoTurn
    /\ sub' = NotSubmitted
    /\ UNCHANGED <<hass, iface, other>>

NextSentinel == Load \/ UtterSentinel \/ Validate \/ Submit \/ Restart

SpecSentinel == Init /\ [][NextSentinel]_vars

(***************************************************************************)
(* _extract_amount on its own: the amount is a string of one to            *)
(* MaxTokens tokens separated by single spaces, the action is unset or set.*)
(***************************************************************************)
MaxTokens == 3

AmountTokens == {<<"3","0">>, <<"5">>, <<"0",".","5">>, Lit.percent, <<"t","o">>}

RECURSIVE Phrases(_)
Phrases(n) ==
    IF n = 0 THEN {<<>>}
    ELSE Phrases(n - 1) \cup {Append(q, t) : q \in Phrases(n - 1), t \in AmountTokens}

AmountInputs ==
    { [AllNone EXCEPT !["amount"] = StrV(Join(<<" ">>, q)), !["action"] = a] :
        q \in Phrases(MaxTokens) \ {<<>>},
        a \in {None, StrV(Lit.set_relative), StrV(Word.turn_on)} }

InitAmount ==
    /\ hass = 1
    /\ iface = EmptyIface
    /\ form = "amount"
    /\ slots \in AmountInputs
    /\ active = TRUE
    /\ pc = "validate"
    /\ turns = 0
    /\ out = NoTurn
    /\ sub = NotSubmitted
    /\ other = Fresh

\* slots_to_set.update(self._extract_amount(current_slots["amount"],
\* current_slots["action"])), and the update of current_slots
Extract ==
    /\ pc = "validate"
    /\ \E r \in {extract_amount(slots["amount"], slots["action"])} :
          /\ out' = Turn(slots, Outcome(r.raised, SlotSets(r.upd), <<>>, Apply(slots, r.upd),
                                        EmptyMatch, EmptyMatch))
          /\ slots' = Apply(slots, r.upd)
    /\ pc' = "listen"
    /\ UNCHANGED <<hass, iface, form, active, turns, sub, other>>

NextAmount == Extract

SpecAmount == InitAmount /\ [][NextAmount]_vars

(***************************************************************************)
(* The adjustments on their own: three devices, each on, off or open, each *)
(* without the named attribute or with it and a value that is None, a      *)
(* number or a str.  `hass` holds the state and the value of each device,  *)
(* `other` the new_state decided for each device by an absolute            *)
(* adjustment.                                                             *)
(***************************************************************************)
AdjustIds == <<Word.light_lamp, Word.light_ceiling, Word.media_player_tv>>

AdjustNames == <<Word.Lamp, Word.Ceiling, Word.TV>>

AdjustDomains == <<Word.light, Word.light, Lit.media_player>>

AdjustStates == {Lit.on, Lit.off, Word.open}

\* <<>> for a device without the attribute, <<v>> for one that has it
AdjustValues == {<<>>, <<None>>, <<NumV(FloatOfInt(128))>>, <<StrV(Word.News)>>}

AdjustConfigs == [DOMAIN AdjustIds -> [state : AdjustStates, value : AdjustValues]]

\* An amount is the ratio n / d, negated if neg
RelAmounts == { [neg |-> FALSE, n |-> 30, d |-> 1], [neg |-> TRUE, n |-> 30, d |-> 1],
                [neg |-> FALSE, n |-> 1, d |-> 2] }

AbsAmounts == { [neg |-> FALSE, n |-> 0, d |-> 1], [neg |-> FALSE, n |-> 1, d |-> 2],
                [neg |-> FALSE, n |-> 1, d |-> 1], [neg |-> FALSE, n |-> 19, d |-> 1],
                [neg |-> FALSE, n |-> 20, d |-> 1], [neg |-> TRUE, n |-> 1, d |-> 2],
                [neg |-> TRUE, n |-> 1, d |-> 1], [neg |-> TRUE, n |-> 20, d |-> 1] }

AmountOf(q) == NumV(FloatOfRatio(q.neg, q.n, q.d))

AdjustState(cfg, parameter, i) ==
    [entity_id |-> AdjustIds[i], name |-> AdjustNames[i], domain |-> AdjustDomains[i],
     attributes |-> IF cfg[i].value = <<>> THEN <<Word.friendly_name>>
                    ELSE <<Word.friendly_name, parameter.s>>,
     state |-> cfg[i].state,
     values |-> IF cfg[i].value = <<>> THEN (Word.friendly_name :> StrV(AdjustNames[i]))
                ELSE (Word.friendly_name :> StrV(AdjustNames[i]))
                     @@ (parameter.s :> cfg[i].value[1])]

AdjustHome(cfg, parameter) ==
    [states   |-> [i \in DOMAIN AdjustIds |-> AdjustState(cfg, parameter, i)],
     exposed  |-> Range(AdjustIds),
     entities |-> [e \in Range(AdjustIds) |->
                     [aliases |-> <<>>, area_id |-> Word.living_room, device_id |-> <<>>]],
     devices  |-> <<>>,
     areas    |-> (Word.living_room :> [name |-> Word.Living_Room, aliases |-> <<>>,
                                         floor_id |-> <<>>]),
     floors   |-> <<>>,
     services |-> (Word.light :> LightServices)
                  @@ (Lit.media_player :> <<Word.turn_on, Word.turn_off, Word.volume_set>>)]

AdjustInputs ==
    { [AllNone EXCEPT !["device"] = ListV(AdjustIds), !["parameter"] = StrV(p),
                      !["action"] = StrV(Lit.set_relative), !["amount"] = AmountOf(q)] :
        p \in {Lit.brightness, Lit.volume}, q \in RelAmounts }
    \cup
    { [AllNone EXCEPT !["device"] = ListV(AdjustIds), !["parameter"] = StrV(p),
                      !["action"] = StrV(Lit.set_absolute), !["amount"] = AmountOf(q)] :
        p \in {Lit.brightness, Lit.volume}, q \in AbsAmounts }

InitAdjust ==
    /\ hass \in AdjustConfigs
    /\ iface = EmptyIface
    /\ form = "amount"
    /\ slots \in AdjustInputs
    /\ active = FALSE
    /\ pc = "submit"
    /\ turns = 0
    /\ out = NoTurn
    /\ sub = NotSubmitted
    /\ other = <<>>

\* _HASS_IF.apply_rel_adjustment(device_ids, parameter, amount)
AdjustRel ==
    /\ pc = "submit"
    /\ slots["action"] = StrV(Lit.set_relative)
    /\ \E did \in {apply_rel_adjustment(AdjustHome(hass, slots["parameter"]), {},
                                         slots["device"].l, slots["parameter"],
                                         slots["amount"])} :
          sub' = Submitted(slots, {}, did.raised, <<>>, did)
    /\ pc' = "done"
    /\ UNCHANGED <<hass, iface, form, slots, active, turns, out, other>>

\* _HASS_IF.apply_abs_adjustment(device_ids, parameter, amount)
AdjustAbs ==
    /\ pc = "submit"
    /\ slots["action"] = StrV(Lit.set_absolute)
    /\ \E did \in {apply_abs_adjustment(AdjustHome(hass, slots["parameter"]), {},
                                         slots["device"].l, slots["parameter"],
                                         slots["amount"])} :
          sub' = Submitted(slots, {}, did.raised, <<>>, did)
    /\ other' = [i \in DOMAIN AdjustIds |->
                   new_state(slots["parameter"], slots["amount"],
                             AdjustState(hass, slots["parameter"], i))]
    /\ pc' = "done"
    /\ UNCHANGED <<hass, iface, form, slots, active, turns, out>>

NextAdjust == AdjustRel \/ AdjustAbs

SpecAdjust == InitAdjust /\ [][NextAdjust]_vars

(***************************************************************************)
(* Dialogues in the home Hass4, which has a device with a single action    *)
(* (the scene) and a device with none (the sensor).                        *)
(***************************************************************************)
SceneLocations == {Word.Kitchen, Word.Bedroom}

SceneDevices == {Word.lamp, Word.movie, Word.thermo}

SceneActions == {Lit.set, Word.turn_down_sp, Lit.increase, Word.turn_on}

\* The user opens a dialogue in the home Hass4
UtterScene ==
    /\ pc = "listen" /\ ~active
    /\ \E f \in {"location", "amount"},
          l \in Maybe(SceneLocations), d \in Maybe(SceneDevices),
          p \in Maybe({Lit.brightness}), a \in Maybe(SceneActions),
          n \in Maybe(AmountPhrases) :
          /\ f = "location" => n = None
          /\ form' = f
          /\ slots' = [AllNone EXCEPT !["location"] = l, !["device"] = d,
                                      !["parameter"] = p, !["action"] = a,
                                      !["amount"] = n]
    /\ active' = TRUE
    /\ pc' = "validate"
    /\ turns' = 0
    /\ out' = NoTurn
    /\ sub' = NotSubmitted
    /\ UNCHANGED <<hass, iface, other>>

NextScene == LoadMatch \/ UtterScene \/ Answer \/ Validate \/ Submit \/ Restart

SpecScene == InitMatch /\ [][NextScene]_vars

(***************************************************************************)
(* The three operations of HassIface over a list of which a device may     *)
(* have left Home Assistant.  `hass` holds the state and the value of each *)
(* device, `other` the set of the entities that are gone.                  *)
(***************************************************************************)
MissingConfigs ==
    [DOMAIN AdjustIds -> [state : {Lit.on, Word.open},
                          value : {<<>>, <<NumV(FloatOfInt(128))>>, <<StrV(Word.News)>>}]]

MissingInputs ==
    { [AllNone EXCEPT !["device"] = ListV(AdjustIds), !["parameter"] = StrV(p),
                      !["action"] = StrV(a), !["amount"] = NumV(FloatOfInt(30))] :
        p \in {Lit.brightness, Lit.volume}, a \in {Lit.set_relative, Lit.set_absolute} }
    \cup
    { [AllNone EXCEPT !["device"] = ListV(AdjustIds), !["action"] = StrV(a)] :
        a \in {Word.turn_on, Word.toggle} }

InitMissing ==
    /\ hass \in MissingConfigs
    /\ iface = EmptyIface
    /\ form = "amount"
    /\ slots \in MissingInputs
    /\ active = FALSE
    /\ pc = "submit"
    /\ turns = 0
    /\ out = NoTurn
    /\ sub = NotSubmitted
    /\ other \in {{}} \cup {{AdjustIds[i]} : i \in DOMAIN AdjustIds}

\* One of apply_rel_adjustment, apply_abs_adjustment and apply_action, as
\* the action slot says
Operate ==
    /\ pc = "submit"
    /\ \E did \in {IF slots["action"] = StrV(Lit.set_relative)
                    THEN apply_rel_adjustment(AdjustHome(hass, slots["parameter"]), other,
                                              slots["device"].l, slots["parameter"],
                                              slots["amount"])
                    ELSE IF slots["action"] = StrV(Lit.set_absolute)
                    THEN apply_abs_adjustment(AdjustHome(hass, slots["parameter"]), other,
                                              slots["device"].l, slots["parameter"],
                                              slots["amount"])
                    ELSE apply_action(AdjustHome(hass, StrV(Lit.brightness)), other,
                                      slots["action"].s, slots["device"].l)} :
          sub' = Submitted(slots, other, did.raised, <<>>, did)
    /\ pc' = "done"
    /\ UNCHANGED <<hass, iface, form, slots, active, turns, out, other>>

NextMissing == Operate

SpecMissing == InitMissing /\ [][NextMissing]_vars

(***************************************************************************)
(* What a turn shows to the dialogue: readings of the events it returned.  *)
(***************************************************************************)
\* The turn ran: the form matched, or answered before matching, or raised
Ran(o) == o.raised # "" \/ o.events # <<>>

\* The turn called match_entities
Matched(o) == o.calls # <<>>

\* A form termination event
Terminates(o) == HasEvent(o.events, "ActiveLoop")

\* A requested-slot event
RequestsAny(o) == \E i \in 1..Len(o.events) :
                      o.events[i].ev = "SlotSet" /\ o.events[i].key = "requested_slot"

Requests(o, name) == \E i \in 1..Len(o.events) :
                         o.events[i] = SlotSet("requested_slot", StrV(<<name>>))

\* A slot update of k to v
SetsSlot(o, k, v) == \E i \in 1..Len(o.events) : o.events[i] = SlotSet(k, v)

\* The messages of the turn
Messages(o) == {i \in 1..Len(o.events) : o.events[i].ev = "BotUttered"}

\* The turn reports an unknown location
UnknownLocation(o) ==
    \E i \in Messages(o) : o.events[i].text[1] = "Sorry, I don't know the location "

\* The turn asks whether all the devices found are meant
AsksAll(o) ==
    \E i \in Messages(o) :
        /\ o.events[i].text[1] = "Found "
        /\ o.events[i].text[Len(o.events[i].text)]
             = " locations, but it sounds like you only wanted one. Do you want to adjust them all?"

\* The match of the turn found several devices and `multiple` is not true
Ambiguous(o) ==
    Matched(o) /\ Cardinality(o.m.entities) > 1 /\ ~Truthy(o.current["multiple"])

(***************************************************************************)
(* C1.  In a turn of the adjust form whose match yields exactly one        *)
(* location id (and that gets past the clarifying question), the turn      *)
(* emits a slot update setting `location` to that id; and a later turn     *)
(* that starts with that written-back value neither requests the slot      *)
(* `location` nor reports an unknown location.  Stated over the steps of   *)
(* the dialogue: `out` is the earlier turn, `slots` the tracker the later  *)
(* turn starts from, out' the later turn.                                  *)
(***************************************************************************)
WroteLocation(o, id) ==
    /\ o.raised = "" /\ Matched(o) /\ o.m.entities # {} /\ ~Ambiguous(o)
    /\ o.m.locations = {id}

AllAreaAndFloorIds == Range(iface.area_by_id.order) \cup Range(iface.floor_by_id.order)

C1_LocationIdWrittenBackIsAccepted ==
    [][(pc = "validate" /\ form = "amount") =>
        /\ \A id \in AllAreaAndFloorIds :
              WroteLocation(out', id) => SetsSlot(out', "location", StrV(id))
        /\ \A id \in AllAreaAndFloorIds :
              (WroteLocation(out, id) /\ slots["location"] = StrV(id))
                  => (~Requests(out', "location") /\ ~UnknownLocation(out'))]_vars

(***************************************************************************)
(* C2.  In a turn where the match yields more than one device id and       *)
(* `multiple` is not true, the turn emits the clarifying question, emits   *)
(* neither a form termination nor a requested-slot event, and does not     *)
(* write the matched device ids into `device`: the slot updates returned   *)
(* are the values extracted before the match.                              *)
(***************************************************************************)
\* The values extracted from the tracker alone (no match involved): the
\* events may only set a slot to the value the extraction gave it.
OnlyExtracted(o) ==
    \A i \in 1..Len(o.events) :
        o.events[i].ev = "SlotSet" =>
            /\ o.events[i].key \in SlotNames \ {"requested_slot"}
            /\ o.events[i].val = o.current[o.events[i].key]

C2_AmbiguousMatchOnlyAsks ==
    Ambiguous(out) =>
        /\ out.raised = ""
        /\ AsksAll(out) /\ out.events[1].ev = "BotUttered" /\ Cardinality(Messages(out)) = 1
        /\ ~Terminates(out)
        /\ ~RequestsAny(out)
        /\ ~HasEvent(out.events, "AllSlotsReset")
        /\ \A i \in 1..Len(out.events) :
              (out.events[i].ev = "SlotSet" /\ out.events[i].key = "device")
                  => (out.events[i].val.t = "list"
                      /\ Range(out.events[i].val.l) \cap out.m.entities = {})
        /\ OnlyExtracted(out)

\* Several devices found, in both forms, with extracted values returned
C2_Witness ==
    /\ Ambiguous(out) /\ AsksAll(out)
    /\ Cardinality(out.m.entities) = 2
    /\ SetsSlot(out, "device", ListV(<<Word.light>>))
    /\ form = "amount"

(***************************************************************************)
(* C3.  A turn of the adjust form in which exactly one device matches and  *)
(* the action slot names a plain action that device supports (not          *)
(* set_absolute or set_relative) terminates the form in that same turn:    *)
(* `device` is set to the one-element list holding that device id,         *)
(* `action` to the supported action name, and no slot is requested.        *)
(***************************************************************************)
PlainAction(o) ==
    /\ o.current["action"].t = "str" /\ o.current["action"].s # <<>>
    /\ o.current["action"].s \notin {Lit.set_absolute, Lit.set_relative}

\* The names under which entity e supports the action said
SupportedNames(e, action) ==
    {a \in Range(iface.entity_by_id.at[e].action) :
        a \in action_candidates(action, iface.entity_by_id.at[e].domain)}

C3_OneDevicePlainActionTerminates ==
    \A e \in Range(iface.entity_by_id.order) :
        (form = "amount" /\ Matched(out) /\ out.m.entities = {e} /\ PlainAction(out)
         /\ SupportedNames(e, out.current["action"].s) # {})
            => /\ out.raised = ""
               /\ Terminates(out)
               /\ SetsSlot(out, "device", ListV(<<e>>))
               /\ \E a \in SupportedNames(e, out.current["action"].s) :
                     SetsSlot(out, "action", StrV(a))
               /\ ~RequestsAny(out)

\* "turn off" said of the one lamp: the form ends with action turn_off
C3_Witness ==
    /\ form = "amount" /\ out.m.entities = {Word.light_lamp1}
    /\ out.tracker["action"] = StrV(Word.turn_off_sp)
    /\ Terminates(out)
    /\ SetsSlot(out, "action", StrV(Word.turn_off))
    /\ pc = "submit"

(***************************************************************************)
(* C4.  When the match is empty the turn emits exactly one failure message *)
(* that names every active constraint, queries again exactly once with     *)
(* parameter and action dropped, and appends the suggestion "However I did *)
(* find N devices ..." if and only if that relaxed query matches N > 0     *)
(* devices.                                                                *)
(***************************************************************************)
EmptyMatched(o) == Matched(o) /\ o.m.entities = {}

\* Every element of the slot value v is spelled in the text
Mentions(text, v) ==
    \A i \in 1..Len(AsList(v)) : IsSubstring(AsList(v)[i], text)

NamesConstraints(o, text) ==
    /\ text[1] = "Sorry, I don't know of any devices "
    /\ Truthy(o.current["location"])
          => ("in " \in Range(text) /\ Mentions(text, o.current["location"]))
    /\ Truthy(o.current["device"])
          => ("called " \in Range(text) /\ Mentions(text, o.current["device"]))
    /\ Truthy(o.current["parameter"])
          => ("with a " \in Range(text) /\ Mentions(text, o.current["parameter"]))
    /\ (form = "amount" /\ Truthy(o.current["action"]))
          => "that we can " \in Range(text)

C4_EmptyMatchFailureAndSuggestion ==
    EmptyMatched(out) =>
        /\ out.raised = ""
        /\ Cardinality(Messages(out)) = 1
        /\ \A i \in Messages(out) :
              /\ NamesConstraints(out, out.events[i].text)
              /\ ("However I did find " \in Range(out.events[i].text))
                    <=> (out.alt.entities # {})
              /\ out.alt.entities # {}
                    => IsSubstring(<<"However I did find ">>
                                     \o IntToStr(Cardinality(out.alt.entities))
                                     \o <<" devices ">>, out.events[i].text)
        /\ Len(out.calls) = 2
        /\ ~Truthy(out.calls[2]["parameter"]) /\ ~Truthy(out.calls[2]["action"])
        /\ \A k \in SlotNames \ {"parameter", "action"} : out.calls[2][k] = out.calls[1][k]

(***************************************************************************)
(* C5.  For every sequence of turns of the location and the adjust form,   *)
(* over every slot value user input or earlier slot updates can produce,   *)
(* each turn returns a list of events: no exception escapes run.           *)
(***************************************************************************)
C5_EveryTurnReturnsEvents == out.raised = ""

(***************************************************************************)
(* C6.  When the location slot holds a name that is not a sentinel and not *)
(* the name or alias of an area or a floor, the turn emits exactly one     *)
(* failure message and nothing else: the matcher is not invoked, no slot   *)
(* is changed or requested, the form is not terminated.                    *)
(***************************************************************************)
\* The lower-cased names and aliases of the areas and floors of the catalog
LocationNames ==
    UNION {Range(iface.area_by_id.at[a].names) : a \in Range(iface.area_by_id.order)}
    \cup UNION {Range(iface.floor_by_id.at[f].names) : f \in Range(iface.floor_by_id.order)}

UnknownLocationGiven(o) ==
    /\ o.tracker["location"].t = "str" /\ o.tracker["location"].s # <<>>
    /\ Lower(o.tracker["location"].s) \notin {Lit.any, Lit.all, Lit.each}
    /\ Lower(o.tracker["location"].s) \notin LocationNames

C6_UnknownLocationOnlyFails ==
    (pc # "load" /\ UnknownLocationGiven(out)) =>
        /\ out.raised = ""
        /\ out.events = <<BotUttered(<<"Sorry, I don't know the location ">>
                                     \o Lower(out.tracker["location"].s))>>
        /\ out.calls = <<>>
        /\ pc \in {"listen", "validate"} /\ active

\* "Kitchen" said in the home that has no kitchen, with a device named
C6_Witness ==
    /\ hass = 1 /\ out.tracker["location"] = StrV(Word.Kitchen)
    /\ out.tracker["device"] = StrV(Word.lamp)
    /\ UnknownLocationGiven(out) /\ UnknownLocation(out)
    /\ slots = out.tracker

(***************************************************************************)
(* C7.  In a dialogue of the adjust form where the user answers every      *)
(* requested slot with a value valid for the catalog, the form ends by     *)
(* terminating or by a failure message; it does not stop in another way.   *)
(* As a property of every turn: a turn of such a dialogue returns events   *)
(* (a termination, a message or a slot request), it does not raise.        *)
(***************************************************************************)
\* A value the user can give for slot k that the catalog knows
ValidFor(k, w) ==
    CASE k = "location" -> w \in {Lit.any, Lit.all, Lit.each} \cup LocationNames
      [] k = "device" ->
            \E e \in Range(iface.entity_by_id.order) :
                {w, RStrip(w, "s")} \cap (Range(iface.entity_by_id.at[e].names)
                                          \cup {iface.entity_by_id.at[e].domain}) # {}
      [] k = "parameter" ->
            \E e \in Range(iface.entity_by_id.order) :
                w \in Range(iface.entity_by_id.at[e].attributes)
      [] k = "action" ->
            \/ Replace(w, " ", "_") \in DOMAIN ACTION_DICT
            \/ \E e \in Range(iface.entity_by_id.order) :
                  SupportedNames(e, Replace(w, " ", "_")) # {}
      [] k = "amount" -> \E i \in 1..Len(Split(w, " ")) : ParseFloat(Split(w, " ")[i]).ok
      [] OTHER -> TRUE

\* A value an earlier turn of the form wrote into slot k
WrittenBack(k, v) ==
    \/ v.t \in {"none", "list", "num", "bool"}
    \/ k = "location" /\ v.s \in AllAreaAndFloorIds \cup {<<>>}
    \/ k = "action" /\ v.s \in {Lit.set_absolute, Lit.set_relative}
    \/ k = "requested_slot"

Cooperative(tracker) ==
    \A k \in SlotNames :
        WrittenBack(k, tracker[k]) \/ ValidFor(k, Lower(tracker[k].s))

C7_CooperativeTurnEndsInEvents ==
    (form = "amount" /\ pc # "load" /\ Ran(out) /\ Cooperative(out.tracker)) =>
        /\ out.raised = ""
        /\ Terminates(out) \/ Messages(out) # {} \/ RequestsAny(out)

(***************************************************************************)
(* C8.  A match whose location slot is None or empty considers every area  *)
(* of the catalog: the devices returned are the devices of all the areas   *)
(* that pass the device, parameter and action filters.                     *)
(***************************************************************************)
AllAreaDevices ==
    UNION {Range(iface.area_by_id.at[a].entity_ids) : a \in Range(iface.area_by_id.order)}

PlainActions(s) ==
    SelectSeq(AsList(s["action"]), LAMBDA a : a \notin {Lit.set_relative, Lit.set_absolute})

PassesFilters(e, s) ==
    /\ entity_is_candidate(iface, e, s["device"], AsList(s["parameter"]), PlainActions(s))
    /\ \/ PlainActions(s) = <<>>
       \/ match_actions(iface.entity_by_id.at[e], PlainActions(s)) # {}
       \/ Range(AsList(s["action"])) \cap {Lit.set_relative, Lit.set_absolute} # {}

\* The result of the i-th match of the turn
MatchOf(o, i) == IF i = 1 THEN o.m ELSE o.alt

C8_NoLocationMatchesEveryArea ==
    \A i \in 1..Len(out.calls) :
        ~Truthy(out.calls[i]["location"])
            => MatchOf(out, i).entities = {e \in AllAreaDevices : PassesFilters(e, out.calls[i])}

\* "light" with no location finds the lights of the kitchen and the bedroom
C8_Witness ==
    /\ hass = 2 /\ Matched(out) /\ out.calls[1]["location"] = None
    /\ out.calls[1]["device"] = ListV(<<Word.light>>)
    /\ out.m.locations = {Word.kitchen, Word.bedroom}
    /\ out.m.entities = {Word.light_lamp, Word.light_ceiling}

(***************************************************************************)
(* C10.  A turn whose raw device value is a plural ('lights') matches      *)
(* exactly the same device ids as a turn whose raw device value is its     *)
(* singular ('light'), and additionally sets multiple = true.              *)
(***************************************************************************)
PluralGiven(o) ==
    /\ o.tracker["device"].t = "str" /\ EndsWith(Lower(o.tracker["device"].s), "s")
    /\ Matched(o)

\* The tracker of the same turn with the singular said instead
Singular(tracker) ==
    [tracker EXCEPT !["device"] = StrV(RStrip(Lower(tracker["device"].s), "s"))]

C10_PluralMatchesAsSingular ==
    (pc # "load" /\ PluralGiven(out)) =>
        /\ out.current["multiple"] = TrueV
        /\ \A o \in run(iface, form, Singular(out.tracker)) : o.m.entities = out.m.entities

(***************************************************************************)
(* C10, as the code has it.  The plural is kept next to its singular: the  *)
(* turn matches the devices the singular matches and those the plural word *)
(* itself matches (a superset of the singular's), and sets multiple = true.*)
(***************************************************************************)
C10_PluralMatchesBothForms ==
    (pc # "load" /\ PluralGiven(out)) =>
        /\ out.current["multiple"] = TrueV
        /\ \A o \in run(iface, form, Singular(out.tracker)) :
              out.m.entities =
                  o.m.entities
                  \cup match_entities(iface,
                          [out.current EXCEPT !["device"] =
                              ListV(<<Lower(out.tracker["device"].s)>>)]).entities

\* "lights" in the home with a switch named Lights: the switch and the lights
C10_Witness ==
    /\ hass = 2 /\ PluralGiven(out) /\ out.tracker["device"] = StrV(Word.lights)
    /\ out.m.entities = {Word.switch_lights, Word.light_lamp, Word.light_ceiling}
    /\ \E o \in run(iface, form, Singular(out.tracker)) :
          o.m.entities = {Word.light_lamp, Word.light_ceiling}

(***************************************************************************)
(* C11.  With a non-empty action filter that is not an adjustment          *)
(* pseudo-action, a device of domain D (that passes the other filters) is  *)
(* matched if and only if it supports, for some action a of the filter,    *)
(* one of the three forms a, a_D, D_a; the action set returned is exactly  *)
(* the set of those supported forms over the matched devices.              *)
(***************************************************************************)
\* The forms of the actions of slot set s that entity e supports
SupportedForms(e, s) ==
    LET D == iface.entity_by_id.at[e].domain IN
    {f \in Range(iface.entity_by_id.at[e].action) :
        \E a \in Range(AsList(s["action"])) :
            f = a \/ f = a \o <<"_">> \o D \/ f = D \o <<"_">> \o a}

\* The action filter of s is not empty and holds no adjustment pseudo-action
PlainActionFilter(s) ==
    /\ AsList(s["action"]) # <<>>
    /\ Range(AsList(s["action"])) \cap {Lit.set_relative, Lit.set_absolute} = {}

\* The devices that pass the filters of s other than the action filter
PassOtherFilters(s) == match_entities(iface, [s EXCEPT !["action"] = None]).entities

SubmitRan == sub # NotSubmitted

\* SubmitAdjust.run called apply_rel_adjustment
RelativeAdjust ==
    /\ SubmitRan /\ form = "amount"
    /\ sub.tracker["action"] = StrV(Lit.set_relative)
    /\ IsNumber(sub.tracker["amount"])

\* The state Home Assistant holds of device d
StateOfDevice(d) == CHOOSE st \in Range(Homes[hass].states) : st.entity_id = d

\* Device d holds a numeric value of the parameter of the submit action
NumericCurrent(d) ==
    /\ sub.tracker["parameter"].t = "str"
    /\ sub.tracker["parameter"].s \in Range(StateOfDevice(d).attributes)
    /\ StateOfDevice(d).values[sub.tracker["parameter"].s].t = "num"

CurrentOf(d) == StateOfDevice(d).values[sub.tracker["parameter"].s].n

\* The amount handed to _apply_abs_adjustment for device d, if any
HandedFor(d) == {sub.handed[i].amount : i \in {j \in 1..Len(sub.handed) :
                                                   sub.handed[j].entity_id = d}}

(***************************************************************************)
(* C12: a relative adjustment by a on a device whose current value is the  *)
(* number v hands v + a to the absolute adjustment (a current value of 0.6 *)
(* and an amount of 0.3 give 0.9), and the device is reported as adjusted. *)
(***************************************************************************)
Tenths(k) == FloatOfRatio(FALSE, k, 10)

C12_RelativeHandsSum ==
    (RelativeAdjust /\ sub.removed = {}) =>
        \A d \in Range(sub.tracker["device"].l) : NumericCurrent(d) =>
            /\ \E h \in HandedFor(d) :
                  /\ h.n = FloatAdd(CurrentOf(d), sub.tracker["amount"].n)
                  /\ (CurrentOf(d) = Tenths(6) /\ sub.tracker["amount"].n = Tenths(3))
                        => h.n = Tenths(9)
            /\ d \in Range(sub.success)

(***************************************************************************)
(* C13: every execution of SubmitAdjust.run (the adjustment succeeded, a   *)
(* device was not found, the action is not supported) ends with exactly    *)
(* one message followed by a reset of all slots, and never with an         *)
(* exception.                                                              *)
(***************************************************************************)
C13_SubmitAlwaysReports ==
    (SubmitRan /\ form = "amount") =>
        /\ sub.raised = ""
        /\ Len(sub.events) = 2
        /\ sub.events[1].ev = "BotUttered"
        /\ sub.events[2] = AllSlotsReset

(***************************************************************************)
(* C14: whenever the catalog is loaded again while dialogues go on, every  *)
(* call of the matcher and every lookup of a location name finds the       *)
(* indexes by id and the indexes by name of one and the same load, never   *)
(* a partly filled index.  (Checked under SpecReload: a turn reads the     *)
(* indexes in the state it starts from, so they are to be those of one     *)
(* load in every state.)                                                   *)
(***************************************************************************)
OneLoad(self) ==
    \/ self = EmptyIface
    \/ \E h \in 1..Len(Homes) :
          LET got == get_exposed_entities(Homes[h]) IN
          /\ got.ok
          /\ self.entity_by_id = got.entities
          /\ self.area_by_id = got.areas
          /\ self.floor_by_id = got.floors
          /\ self.entity_by_name = reverse_map(got.entities)
          /\ self.area_by_name = reverse_map(got.areas)
          /\ self.floor_by_name = reverse_map(got.floors)

OwnTurn(c_form, c_out) ==
    Ran(c_out) => \E o \in run(iface, c_form, c_out.tracker) : c_out = Turn(c_out.tracker, o)

NamedAreas(h) ==
    {h.entities[e].area_id : e \in DOMAIN h.entities}
    \cup {h.devices[h.entities[e].device_id].area_id :
             e \in {x \in DOMAIN h.entities : h.entities[x].device_id \in DOMAIN h.devices}}

KnownAreas(h) == NamedAreas(h) \cap DOMAIN h.areas

KnownFloors(h) == {h.areas[a].floor_id : a \in KnownAreas(h)} \cap DOMAIN h.floors

LoadedAllKnown(self, h) ==
    /\ Range(self.entity_by_id.order) = h.exposed
    /\ Range(self.area_by_id.order) = KnownAreas(h)
    /\ Range(self.floor_by_id.order) = KnownFloors(h)

C16_UnknownReferenceDropped == pc = "listen" => LoadedAllKnown(iface, RegistryHome(hass))

\* C17: the next-slot decision of the adjust form is the first outstanding
\* slot in the order: action if no action is set; else device if no device
\* is resolved; else location if more than one device is resolved and
\* multiple is not set; else, only for set_absolute and set_relative,
\* amount if the amount is None, then parameter if the parameter is empty;
\* with none outstanding the form terminates.  An amount of 0 counts as set.
Resolved(s) ==
    IF s["device"].t = "list" THEN Len(s["device"].l)
    ELSE IF s["device"].t = "str" THEN 1 ELSE 0

ActionSet(s) == s["action"] \notin {None, StrV(<<>>)}

Adjusts(s) == s["action"] \in {StrV(Lit.set_absolute), StrV(Lit.set_relative)}

ParameterEmpty(s) == s["parameter"] \in {None, StrV(<<>>)}

Narrowed(s) == ActionSet(s) /\ Resolved(s) >= 1 /\ (Resolved(s) = 1 \/ s["multiple"] = TrueV)

Asks(name) == slots["requested_slot"] = StrV(<<name>>) /\ active

C17_NextSlotOrder ==
    pc = "listen" =>
      /\ ~ActionSet(slots) => Asks("action")
      /\ ActionSet(slots) /\ Resolved(slots) = 0 => Asks("device")
      /\ ActionSet(slots) /\ Resolved(slots) > 1 /\ slots["multiple"] = None
           => Asks("location")
      /\ Narrowed(slots) /\ Adjusts(slots) /\ slots["amount"] = None => Asks("amount")
      /\ Narrowed(slots) /\ Adjusts(slots) /\ slots["amount"] # None
           /\ ParameterEmpty(slots) => Asks("parameter")
      /\ Narrowed(slots) /\ (~Adjusts(slots) \/ (slots["amount"] # None
                                                 /\ ~ParameterEmpty(slots)))
           => slots["requested_slot"] = None /\ ~active

\* The decision was made for an absolute adjustment by the amount 0 of one
\* device with its parameter: the form terminated
C17_Witness ==
    /\ pc = "listen"
    /\ slots["action"] = StrV(Lit.set_absolute)
    /\ slots["amount"] = NumV(FloatZero)
    /\ Resolved(slots) = 1
    /\ ~ParameterEmpty(slots)
    /\ slots["requested_slot"] = None /\ ~active

\* C18: re-validation is stable across turns: for the slots S left by the
\* slot updates of a turn that did not fail, a further turn on S with no new
\* user input raises nothing, utters no failure message, matches the same
\* devices and has the same outcome (the same requested slot, or
\* termination) as the turn that produced S.
DidNotFail(o) ==
    /\ o.raised = ""
    /\ Matched(o) /\ o.m.entities # {}
    /\ ~HasEvent(o.events, "AllSlotsReset")

SameOutcome(o1, o2) ==
    /\ DidNotFail(o2)
    /\ o2.m.entities = o1.m.entities
    /\ Terminates(o2) <=> Terminates(o1)
    /\ \A name \in SlotNames : Requests(o2, name) <=> Requests(o1, name)

C18_RevalidationStable ==
    (pc \in {"listen", "submit"} /\ turns >= 1 /\ DidNotFail(out))
        => \A o2 \in run(iface, form, slots) : SameOutcome(out, o2)

\* What the catalog holds of device e, and the filters of slot set s
Device(e) == iface.entity_by_id.at[e]

InLocation(e, s) ==
    \E a \in Range(iface.area_by_id.order) :
        /\ e \in Range(iface.area_by_id.at[a].entity_ids)
        /\ s["location"] = None \/ a \in Range(s["location"].l)

Named(e, s) ==
    s["device"] = None
    \/ (Range(Device(e).names) \cup {Device(e).domain}) \cap Range(s["device"].l) # {}

ParameterFilter(s) == Range(AsList(s["parameter"]))

HasParameter(e, s) ==
    ParameterFilter(s) = {} \/ Range(Device(e).attributes) \cap ParameterFilter(s) # {}

\* C19: when the action constraint is set_absolute or set_relative,
\* match_entities accepts every device that passes the location, device and
\* parameter filters, whatever actions it supports, a device that supports
\* no action included.
C19_AdjustIgnoresActions ==
    (Matched(out) /\ out.tracker["action"] \in {StrV(Lit.set_absolute), StrV(Lit.set_relative)})
        => out.m.entities = {e \in Range(iface.entity_by_id.order) :
                                InLocation(e, out.tracker) /\ Named(e, out.tracker)
                                /\ HasParameter(e, out.tracker)}

\* An absolute adjustment of the temperature matched the sensor, which
\* supports no action
C19_Witness ==
    /\ Matched(out)
    /\ out.tracker["action"] = StrV(Lit.set_absolute)
    /\ out.tracker["parameter"] = StrV(Lit.temperature)
    /\ out.m.entities = {Word.sensor_thermo}
    /\ Device(Word.sensor_thermo).action = <<>>

\* C20: with a non-empty parameter filter match_entities matches a device
\* only if it exposes an attribute of the filter (a device that exposes no
\* attribute is never matched) and the attributes returned are attributes
\* of the filter; with an empty parameter filter the attributes returned
\* are all the attributes of the matched devices.
C20_ParameterFilter ==
    Matched(out) =>
        IF ParameterFilter(out.tracker) # {}
        THEN /\ \A e \in out.m.entities :
                    Range(Device(e).attributes) \cap ParameterFilter(out.tracker) # {}
             /\ out.m.attributes \subseteq ParameterFilter(out.tracker)
        ELSE out.m.attributes = UNION {Range(Device(e).attributes) : e \in out.m.entities}

\* The bedroom holds one device, the scene, which exposes no attribute: a
\* match for the brightness in the bedroom found nothing
C20_Witness ==
    /\ Matched(out)
    /\ Device(Word.scene_movie).attributes = <<>>
    /\ out.tracker["parameter"] = StrV(Lit.brightness)
    /\ out.tracker["device"] = None /\ out.tracker["action"] = None
    /\ out.tracker["location"] = ListV(<<Word.bedroom>>)
    /\ out.m.entities = {}

\* The devices of the catalog, and those that pass the device, parameter
\* and action filters of slot set s
Catalog == Range(iface.entity_by_id.order)

ActionFilter(s) == Range(AsList(s["action"]))

Supports(e, s) ==
    \/ ActionFilter(s) = {}
    \/ ActionFilter(s) \cap {Lit.set_relative, Lit.set_absolute} # {}
    \/ SupportedForms(e, s) # {}

FilterPassing(s) == {e \in Catalog : Named(e, s) /\ HasParameter(e, s) /\ Supports(e, s)}

\* The ids of the location constraint of s, and the devices of an area
LocationFilter(s) == Range(AsList(s["location"]))

AreaIds == Range(iface.area_by_id.order)

FloorIds == Range(iface.floor_by_id.order)

MembersOf(a) == Range(iface.area_by_id.at[a].entity_ids)

\* C21: with the location constraint empty, a device of the catalog that
\* belongs to no area and passes the device, parameter and action filters
\* is among the devices match_entities returns.
C21_WildcardReachesAreaLess ==
    (Matched(out) /\ LocationFilter(out.tracker) = {})
        => \A e \in FilterPassing(out.tracker) :
               Device(e).area_ids = <<>> => e \in out.m.entities

\* C22: for a location constraint that is one id or a list of area ids and
\* floor ids, the devices returned are the filter-passing devices of the
\* given areas and of the member areas of the given floors; a constraint
\* that is one area id matches no device outside that area.
InGiven(e, s) ==
    \/ \E a \in LocationFilter(s) \cap AreaIds : e \in MembersOf(a)
    \/ \E f \in LocationFilter(s) \cap FloorIds :
          \E a \in Range(iface.floor_by_id.at[f].area_ids) : e \in MembersOf(a)

C22_LocationConstraint ==
    (Matched(out) /\ LocationFilter(out.tracker) # {})
        => /\ out.m.entities = {e \in FilterPassing(out.tracker) : InGiven(e, out.tracker)}
           /\ \A a \in AreaIds :
                 out.tracker["location"] = StrV(a) => out.m.entities \subseteq MembersOf(a)

\* C23: the locations match_entities returns are the areas that hold a
\* matched device: area ids only, also when the constraint held floor ids,
\* and an area is among them if and only if one of its devices is among the
\* devices returned.
C23_LocationsAreMatchedAreas ==
    Matched(out) => out.m.locations = {a \in AreaIds : MembersOf(a) \cap out.m.entities # {}}

\* C24: when the index by name of the entities is built from records of
\* which two share a name or an alias, the build does not fail, the index
\* holds one entry for that name, and the entry is the record that was
\* registered first.
NamesOf(e) == Range(iface.entity_by_id.at[e].names)

Registered(n) == {i \in 1..Len(iface.entity_by_id.order) : n \in NamesOf(iface.entity_by_id.order[i])}

FirstRegistered(n) ==
    iface.entity_by_id.order[CHOOSE i \in Registered(n) : \A j \in Registered(n) : i <= j]

EntriesFor(n) == {i \in 1..Len(iface.entity_by_name.order) : iface.entity_by_name.order[i] = n}

C24_CollisionKeepsFirst ==
    pc = "listen" =>
        /\ Catalog = DOMAIN Hass2.entities
        /\ \A n \in UNION {NamesOf(e) : e \in Catalog} :
              /\ Cardinality(EntriesFor(n)) = 1
              /\ iface.entity_by_name.at[n].id = FirstRegistered(n)

\* C25: after every completed load, a device lists area a among its areas
\* if and only if a is in the catalog and the devices of a include it; the
\* floor f an area refers to is absent, or f is in the catalog and the
\* areas of f include the area; and the devices of a floor are the union of
\* the devices of its areas.
LoadCompleted == pc = "listen" /\ iface # EmptyIface

FloorOf(a) == iface.area_by_id.at[a].floor_id

AreasOf(f) == Range(iface.floor_by_id.at[f].area_ids)

C25_CatalogConsistent ==
    LoadCompleted =>
        /\ \A e \in Catalog : \A a \in Range(Device(e).area_ids) :
              a \in AreaIds /\ e \in MembersOf(a)
        /\ \A a \in AreaIds : \A e \in MembersOf(a) :
              e \in Catalog /\ a \in Range(Device(e).area_ids)
        /\ \A a \in AreaIds :
              FloorOf(a) = <<>> \/ (FloorOf(a) \in FloorIds /\ a \in AreasOf(FloorOf(a)))
        /\ \A f \in FloorIds :
              Range(iface.floor_by_id.at[f].entity_ids) = UNION {MembersOf(a) : a \in AreasOf(f)}

\* C26: when the location slot of a turn is one of the sentinels "any",
\* "all" and "each", the turn sets multiple to true and clears the location
\* before it matches, the match ranges over every area of the catalog, and
\* a match of more than one device does not produce the clarifying
\* question; a turn that matched devices returns multiple = true.
SentinelGiven(o) == Ran(o) /\ o.tracker["location"] \in {StrV(x) : x \in Sentinels}

TokensOf(tracker) == Split(tracker["amount"].s, " ")

NumberTokens(tracker) == {i \in 1..Len(TokensOf(tracker)) : ParseFloat(TokensOf(tracker)[i]).ok}

LastNumber(tracker) ==
    ParseFloat(TokensOf(tracker)[CHOOSE i \in NumberTokens(tracker) :
                                    \A j \in NumberTokens(tracker) : j <= i]).n

SaysPercent(tracker) == \E i \in 1..Len(TokensOf(tracker)) : TokensOf(tracker)[i] = Lit.percent

AmountParsed == pc = "listen" /\ out.tracker["amount"].t = "str" /\ Len(out.events) > 0

C27_AmountParsing ==
    AmountParsed =>
        /\ out.raised = ""
        /\ NumberTokens(out.tracker) # {} =>
              slots["amount"] = NumV(FloatMul(LastNumber(out.tracker),
                                              IF SaysPercent(out.tracker) THEN Hundredth
                                              ELSE FloatOfInt(1)))
        /\ NumberTokens(out.tracker) = {} => slots["amount"] = out.tracker["amount"]
        /\ out.tracker["action"] # None => slots["action"] = out.tracker["action"]
        /\ out.tracker["action"] = None =>
              (slots["action"] = StrV(Lit.set_absolute) <=> NumberTokens(out.tracker) # {})
        /\ out.tracker["action"] = None /\ NumberTokens(out.tracker) = {}
              => slots["action"] = None

\* "percent 5 30" with the action set_relative: the last number, the
\* percent sign before it, the action kept
C27_Witness ==
    /\ AmountParsed
    /\ out.tracker["amount"] = StrV(Lit.percent \o <<" ", "5", " ", "3", "0">>)
    /\ out.tracker["action"] = StrV(Lit.set_relative)
    /\ slots["amount"] = NumV(FloatOfRatio(FALSE, 3, 10))
    /\ slots["action"] = StrV(Lit.set_relative)

\* C28: in a relative adjustment over a list of devices, a device without
\* the named attribute is skipped: no command is dispatched for it, it is
\* not in the returned list, the other devices are still processed and the
\* operation does not fail on it.
RelDone == pc = "done" /\ sub.tracker["action"] = StrV(Lit.set_relative)

Lacks(i) == hass[i].value = <<>>

CommandsFor(i) == {k \in 1..Len(sub.services) : sub.services[k].entity_id = AdjustIds[i]}

Returned(i) == AdjustIds[i] \in Range(sub.success)

HandedOn(i) == \E k \in 1..Len(sub.handed) : sub.handed[k].entity_id = AdjustIds[i]

C28_LackingAttributeSkipped ==
    RelDone =>
        \A i \in DOMAIN AdjustIds :
            Lacks(i) => CommandsFor(i) = {} /\ ~Returned(i) /\ ~HandedOn(i)

\* C29: in a relative adjustment over a list of devices, a device whose
\* current value of the named attribute is not a number gets no command
\* and is not in the returned list; the devices before and after it are
\* processed in their order, and the operation does not raise on it: if it
\* raises, it does so in the absolute adjustment of a device handed to it.
NotNumeric(i) ==
    /\ hass[i].value # <<>>
    /\ hass[i].value[1] # None
    /\ hass[i].value[1].t \notin {"num", "bool"}

Numeric == SelectSeq(AdjustIds, LAMBDA d : \E i \in DOMAIN AdjustIds :
                                              AdjustIds[i] = d /\ ~NotNumeric(i))

HandedIds == [k \in 1..Len(sub.handed) |-> sub.handed[k].entity_id]

AbsDone == pc = "done" /\ sub.tracker["action"] = StrV(Lit.set_absolute)

Asked == CHOOSE q \in AbsAmounts : AmountOf(q) = sub.tracker["amount"]

ThresholdFor(i) == IF Lacks(i) THEN 20 ELSE 1

AtLeast(q, t) == ~q.neg /\ q.n >= t * q.d

MagnitudeBelow(q, t) == q.n < t * q.d

Transition(i) ==
    IF hass[i].state = Lit.off /\ AtLeast(Asked, ThresholdFor(i)) THEN Lit.on
    ELSE IF hass[i].state = Lit.on /\ MagnitudeBelow(Asked, ThresholdFor(i)) THEN Lit.off
    ELSE hass[i].state

OwnService == sub.tracker["parameter"].s \in DOMAIN PARAM_TO_SVC

C30_ThresholdTransition ==
    AbsDone =>
        \A i \in DOMAIN AdjustIds :
            /\ other[i] = Transition(i)
            /\ (other[i] = Lit.on /\ hass[i].state = Lit.off)
                  <=> (hass[i].state = Lit.off /\ AtLeast(Asked, ThresholdFor(i)))
            /\ (other[i] = Lit.off /\ hass[i].state = Lit.on)
                  <=> (hass[i].state = Lit.on /\ MagnitudeBelow(Asked, ThresholdFor(i)))
            /\ ~OwnService =>
                  \A k \in CommandsFor(i) :
                      sub.services[k].service =
                          IF Transition(i) = Lit.on THEN Lit.turn_on ELSE Lit.turn_off

\* An amount of 19: below the threshold of the devices without the
\* attribute, above that of the device with it
C30_Witness ==
    /\ AbsDone
    /\ Asked = [neg |-> FALSE, n |-> 19, d |-> 1]
    /\ ~OwnService
    /\ hass[1] = [state |-> Lit.off, value |-> <<>>]
    /\ hass[2] = [state |-> Lit.off, value |-> <<NumV(FloatOfInt(128))>>]
    /\ hass[3] = [state |-> Lit.on, value |-> <<>>]
    /\ other = <<Lit.off, Lit.on, Lit.off>>
    /\ sub.raised = ""
    /\ [k \in 1..Len(sub.services) |-> sub.services[k].service]
         = <<Lit.turn_off, Lit.turn_on, Lit.turn_off>>

\* C31: for every existing device handed to the absolute adjustment,
\* directly or through the relative one, whatever its state, exactly one
\* command is dispatched: one that carries (parameter, value) when the
\* device exposes the parameter, and a plain turn_on or turn_off that
\* carries no value when it does not.
AdjustDone == pc = "done" /\ sub.tracker["action"] \in {StrV(Lit.set_absolute),
                                                        StrV(Lit.set_relative)}

HandedAmount(i) ==
    sub.handed[CHOOSE k \in 1..Len(sub.handed) : sub.handed[k].entity_id = AdjustIds[i]].amount

C31_OneCommandPerDevice ==
    AdjustDone =>
        \A i \in DOMAIN AdjustIds :
            HandedOn(i) =>
                /\ Cardinality(CommandsFor(i)) = 1
                /\ \A k \in CommandsFor(i) :
                      IF Lacks(i)
                      THEN /\ sub.services[k].service \in {Lit.turn_on, Lit.turn_off}
                           /\ sub.services[k].key = <<>>
                      ELSE /\ sub.services[k].key = sub.tracker["parameter"].s
                           /\ sub.services[k].val = HandedAmount(i)

\* C32: if the action slot resolves to set_absolute or set_relative at the
\* start of a turn, directly or through the verbs set, increase, decrease,
\* turn up and turn down, then after that turn the action slot holds that
\* pseudo-action, and so after every later turn until a reset: the
\* collapse of a single matched action never replaces it.
PseudoAction(a) ==
    IF a = None THEN <<>>
    ELSE IF a.s \in {Lit.set_absolute, Lit.set} THEN Lit.set_absolute
    ELSE IF a.s \in {Lit.set_relative, Lit.increase, Lit.decrease, Lit.turn_up, Lit.turn_down,
                     Word.turn_down_sp}
    THEN Lit.set_relative
    ELSE <<>>

TurnDone == pc \in {"listen", "submit"} /\ Len(out.events) > 0

C32_PseudoActionKept ==
    (/\ TurnDone
     /\ form = "amount"
     /\ PseudoAction(out.tracker["action"]) # <<>>
     /\ ~HasEvent(out.events, "AllSlotsReset"))
    => PseudoAction(slots["action"]) = PseudoAction(out.tracker["action"])

\* C33: whenever a turn terminates the form or requests a slot after a
\* match that is not empty, the device slot written by the turn is exactly
\* the set of the device ids matched in the turn, each of them a device of
\* the catalog, and it has one element or `multiple` is true.
WroteDevice(v) == \E i \in 1..Len(out.events) : out.events[i] = SlotSet("device", v)

GoesOn == TurnDone /\ (Terminates(out) \/ RequestsAny(out)) /\ out.m.entities # {}

C33_DeviceSlotIsTheMatch ==
    GoesOn =>
        /\ slots["device"].t = "list"
        /\ WroteDevice(slots["device"])
        /\ \A i \in 1..Len(out.events) :
              (out.events[i].ev = "SlotSet" /\ out.events[i].key = "device")
              => out.events[i].val = slots["device"]
        /\ Range(slots["device"].l) = out.m.entities
        /\ Len(slots["device"].l) = Cardinality(out.m.entities)
        /\ Range(slots["device"].l) \subseteq HomeAt(hass).exposed
        /\ Len(slots["device"].l) = 1 \/ slots["multiple"] = TrueV

\* A turn that writes two devices, with multiple true, and goes on
C33_Witness ==
    /\ GoesOn
    /\ Len(slots["device"].l) = 2
    /\ slots["multiple"] = TrueV
    /\ RequestsAny(out)

\* C34: whenever the adjust form terminates with the action set_absolute
\* or set_relative, the amount slot holds a number: an amount without a
\* token that is a number never lets the form terminate, and the submit
\* step never hands an amount that is not a number to an absolute
\* adjustment.
Adjusting(tracker) == tracker["action"] \in {StrV(Lit.set_absolute), StrV(Lit.set_relative)}

C34_TerminatesWithNumber ==
    /\ (pc = "submit" /\ form = "amount" /\ Adjusting(slots)) => IsNumber(slots["amount"])
    /\ (pc = "done" /\ form = "amount" /\ sub.tracker["action"] = StrV(Lit.set_absolute))
         => \A k \in 1..Len(sub.handed) : IsNumber(sub.handed[k].amount)

\* C35: whenever the adjust form terminates with the action set_absolute
\* or set_relative, every device id of the device slot exposes the
\* attribute named by the parameter slot, whether the parameter was given
\* by the user or taken from the single attribute of the matched devices.
\* The attributes of a device are those of its catalog entry.
Exposes(d, parameter) ==
    /\ d \in Catalog
    /\ parameter.t = "str"
    /\ parameter.s \in Range(Device(d).attributes)

C35_DevicesExposeParameter ==
    (pc = "submit" /\ form = "amount" /\ Adjusting(slots))
    => \A d \in Range(slots["device"].l) : Exposes(d, slots["parameter"])

\* C36: no turn of either form requests the location slot or the device
\* slot: in every turn that reaches the decision of the next slot the
\* device slot is a list of ids that is not empty, with one element or
\* with `multiple` true, so the slots requested are the action, the amount
\* and the parameter only.
Decided == TurnDone /\ (Terminates(out) \/ RequestsAny(out))

C36_NeverAsksLocationOrDevice ==
    TurnDone =>
        /\ ~Requests(out, "location") /\ ~Requests(out, "device")
        /\ RequestsAny(out) =>
              Requests(out, "action") \/ Requests(out, "amount") \/ Requests(out, "parameter")
        /\ Decided =>
              /\ slots["device"].t = "list"
              /\ Len(slots["device"].l) >= 1
              /\ Len(slots["device"].l) = 1 \/ Truthy(slots["multiple"])

\* A turn that had no device to start with and asks for the action
C36_Witness ==
    /\ TurnDone
    /\ out.tracker["device"] = None
    /\ Requests(out, "action")
    /\ Len(slots["device"].l) = 1

\* C37: for a dialogue whose verb is decrease or turn down and whose amount
\* is a positive number, the value the submit step requests from an
\* adjusted device is not greater than the current value of the parameter
\* on that device; for increase or turn up it is not smaller.
Downward == {Lit.decrease, Lit.turn_down, Word.turn_down_sp}

Upward == {Lit.increase, Lit.turn_up}

Positive(v) == v.t = "num" /\ ~v.n.neg /\ v.n.m # <<>>

\* The dialogue was one turn with the verb v and is submitted
SubmittedWith(V) ==
    /\ pc = "done" /\ form = "amount" /\ turns = 1
    /\ out.tracker["action"].t = "str" /\ out.tracker["action"].s \in V
    /\ Positive(sub.tracker["amount"])

CurrentValueOf(d) == CurrentValue(StatesGet(HomeAt(hass), {}, d)[1], sub.tracker["parameter"])

C37_DirectionOfVerb ==
    \A k \in 1..Len(sub.handed) :
        /\ SubmittedWith(Downward)
             => ~FloatLess(CurrentValueOf(sub.handed[k].entity_id).n, sub.handed[k].amount.n)
        /\ SubmittedWith(Upward)
             => ~FloatLess(sub.handed[k].amount.n, CurrentValueOf(sub.handed[k].entity_id).n)

\* C38: when apply_action, apply_abs_adjustment or apply_rel_adjustment
\* runs over a list whose device at position i does not exist (or, for
\* apply_action, does not support the action), a command has been
\* dispatched to each processed device before i and to no other, none to
\* the devices at i and after, and the operation raises ValueError.
NamedAction == ~Adjusting(sub.tracker)

Unsupported(i) ==
    /\ NamedAction
    /\ sub.tracker["action"].s
         \notin Range(AdjustHome(hass, StrV(Lit.brightness)).services[AdjustDomains[i]])

Stops(i) == AdjustIds[i] \in other \/ Unsupported(i)

FirstStop(i) == Stops(i) /\ \A j \in 1..(i - 1) : ~Stops(j)

\* The relative adjustment passes over a device whose value is not a number
PassedOver(j) == sub.tracker["action"] = StrV(Lit.set_relative) /\ NotNumeric(j)

C38_StopsAtMissingDevice ==
    pc = "done" =>
        \A i \in DOMAIN AdjustIds :
            FirstStop(i) =>
                /\ sub.raised = "ValueError"
                /\ \A j \in DOMAIN AdjustIds :
                      Cardinality(CommandsFor(j)) = IF j < i /\ ~PassedOver(j) THEN 1 ELSE 0

\* C39: a turn that ends with the failure "no devices found" returns the
\* failure message and a reset of all slots and no other event, so the
\* next turn starts with every slot unset, `multiple` included; a turn that
\* ends with the unknown-location failure or with the clarifying question
\* resets no slot.
NoDevicesFailure(o) ==
    \E i \in Messages(o) : o.events[i].text[1] = "Sorry, I don't know of any devices "

Unset(v) == v = None \/ v = StrV(<<>>)

C39_ResetOnlyOnNoDevices ==
    /\ NoDevicesFailure(out) =>
          /\ Len(out.events) = 2
          /\ out.events[1].ev = "BotUttered"
          /\ out.events[2] = AllSlotsReset
          /\ slots = AllNone
          /\ pc = "done" /\ ~active
    /\ (UnknownLocation(out) \/ AsksAll(out)) =>
          /\ ~HasEvent(out.events, "AllSlotsReset")
          /\ \A k \in SlotNames : ~Unset(out.tracker[k]) => ~Unset(slots[k])
          /\ active

\* The failure in a turn that had set multiple: nothing of it is left
C39_Witness ==
    /\ NoDevicesFailure(out)
    /\ out.current["multiple"] = TrueV
    /\ out.tracker["device"] # None
    /\ slots["multiple"] = None

\* C40: in a dialogue that resolves to set_absolute with an amount given
\* as "N percent", 1 < N <= 100 (parsed to N x 0.01), the command
\* dispatched for a device that is on and exposes the parameter is not a
\* turn-off command.
AbovePercent(v) ==
    /\ v.t = "num"
    /\ FloatLess(Hundredth, v.n)
    /\ ~FloatLess(FloatOfInt(1), v.n)

SetToPercent ==
    /\ pc = "done" /\ form = "amount"
    /\ sub.tracker["action"] = StrV(Lit.set_absolute)
    /\ AbovePercent(sub.tracker["amount"])

OnAndExposing(d) ==
    LET found == StatesGet(HomeAt(hass), {}, d) IN
    /\ found # <<>>
    /\ found[1].state = Lit.on
    /\ InAttributes(sub.tracker["parameter"], found[1])

C40_PercentKeepsDeviceOn ==
    SetToPercent =>
        \A k \in 1..Len(sub.services) :
            OnAndExposing(sub.services[k].entity_id)
                => sub.services[k].service # Lit.turn_off

====
